---- MODULE Spec2Model ----
(***************************************************************************)
(* Model of SSHCommandExecutor (src/src/ssh_command_executor.py): one      *)
(* session object shared by several caller threads, the marker protocol    *)
(* of execute_command, the recovery state machine and the forced           *)
(* reconnect, over a remote interactive shell whose output arrives as an   *)
(* unframed stream of lines.                                               *)
(*                                                                         *)
(* A line of shell output is a sequence of tokens <<kind, a, b>>:          *)
(*   <<"sp",0,0>>   one whitespace character                               *)
(*   <<"ch",c,0>>   one ordinary character                                 *)
(*   <<"S",m,0>>    the text SSH_CMD_MARKER_START_<m>                      *)
(*   <<"E",m,0>>    the text SSH_CMD_MARKER_END_<m>                        *)
(*   <<"X",0,0>>    the text EXIT_CODE:                                    *)
(*   <<"d",n,0>>    the decimal digit n                                    *)
(*   <<"P",m,r>>    the text RECOVERY_TEST_<id> of call m, round r         *)
(* A line on the wire is a record [own, toks]: toks is the text, own is    *)
(* history only: the call whose framed command made the shell print it, 0   *)
(* for the answer to a recovery probe.                                     *)
(***************************************************************************)
EXTENDS Integers, Sequences, FiniteSets, TLC

\* ----------------------------------------------------------------- bounds
MaxThreads == 2
MaxCalls == 2
MaxTimeout == 1
MaxConn == 2
MaxCode == 1

\* -------------------------------------------------------- program constants
RecoveryRounds == 3
ProbeWindow == 3

Threads == 1..MaxThreads
Timeouts == 1..MaxTimeout
Codes == 0..MaxCode
None == -1

\* ------------------------------------------------------------------ tokens
SP == <<"sp", 0, 0>>
CH(c) == <<"ch", c, 0>>
StartTok(m) == <<"S", m, 0>>
EndTok(m) == <<"E", m, 0>>
ExitTok == <<"X", 0, 0>>
Digit(n) == <<"d", n, 0>>
ProbeTok(m, r) == <<"P", m, r>>

Line(m, toks) == [own |-> m, toks |-> toks]

\* What the command of a call may print between its two markers.
OutChoices ==
    { << <<CH(1)>> >>,
      << <<SP, CH(1)>>, <<CH(2)>> >>,
      << <<ExitTok, Digit(1)>> >> }

\* full_command as the remote shell answers it: the start marker, the
\* command's output, the end marker, the EXIT_CODE line.
FullCommandOutput(m, out, code) ==
    << Line(m, <<StartTok(m)>>) >>
    \o [i \in 1..Len(out) |-> Line(m, out[i])]
    \o << Line(m, <<EndTok(m)>>), Line(m, <<ExitTok, Digit(code)>>) >>

\* test_command as the remote shell answers it.
TestCommandOutput(m, r) == << Line(0, <<ProbeTok(m, r)>>) >>

\* ------------------------------------------------------------ str helpers
RECURSIVE LStrip(_)
LStrip(s) ==
    IF s # <<>> /\ Head(s) = SP THEN LStrip(Tail(s)) ELSE s

RECURSIVE RStrip(_)
RStrip(s) ==
    IF s # <<>> /\ s[Len(s)] = SP THEN RStrip(SubSeq(s, 1, Len(s) - 1)) ELSE s

\* str.strip()
Strip(s) == RStrip(LStrip(s))

\* marker in line
Contains(s, tok) == \E i \in 1..Len(s) : s[i] = tok

\* line.startswith('EXIT_CODE:')
StartsWithExit(s) == s # <<>> /\ Head(s) = ExitTok

RECURSIVE DigitsValue(_)
DigitsValue(ds) ==
    IF ds = <<>> THEN 0
    ELSE 10 * DigitsValue(SubSeq(ds, 1, Len(ds) - 1)) + ds[Len(ds)][2]

\* int(line.split(':', 1)[1]); None when int() raises ValueError
ParseExit(s) ==
    IF Len(s) >= 2 /\ \A i \in 2..Len(s) : s[i][1] = "d"
    THEN DigitsValue(SubSeq(s, 2, Len(s)))
    ELSE None

\* ------------------------------------------------- the receive loop's body
\* The locals of the receive loop: command_started, command_ended,
\* exit_code, stdout_lines.  exitFrom is history: the call whose line set
\* exit_code (0 while exit_code is None).
NoDecode ==
    [started |-> FALSE, ended |-> FALSE, exit_code |-> None,
     stdout |-> <<>>, exitFrom |-> 0]

\* exit_code = int(...) with ValueError swallowed; then break
ExitCodeLine(d, ln, line) ==
    IF ParseExit(line) # None
    THEN [d EXCEPT !.exit_code = ParseExit(line), !.exitFrom = ln.own]
    ELSE d

\* if command_started and not command_ended and line: stdout_lines.append
CollectLine(d, ln, line) ==
    IF d.started /\ ~d.ended /\ line # <<>>
    THEN [d EXCEPT !.stdout = Append(@, Line(ln.own, line))]
    ELSE d

\* for line in lines: ... of one received chunk, for the call with marker m
RECURSIVE DecodeLines(_, _, _)
DecodeLines(m, lines, d) ==
    IF lines = <<>> THEN d
    ELSE LET ln == Head(lines)
             line == Strip(ln.toks)
         IN IF Contains(line, StartTok(m))
              THEN DecodeLines(m, Tail(lines), [d EXCEPT !.started = TRUE])
            ELSE IF Contains(line, EndTok(m))
              THEN DecodeLines(m, Tail(lines), [d EXCEPT !.ended = TRUE])
            ELSE IF StartsWithExit(line)
              THEN ExitCodeLine(d, ln, line)
            ELSE DecodeLines(m, Tail(lines), CollectLine(d, ln, line))

\* if command_ended and exit_code is not None: break
LoopDone(d) == d.ended /\ d.exit_code # None

\* ------------------------------------------------------------------ state
VARIABLES
    is_connected,       \* self.is_connected
    shell_channel,      \* self.shell_channel: 0 is None, else the transport's id
    ssh_client,         \* self.ssh_client: 0 is None, else the client's id
    session_recovery,   \* self.session_recovery
    lockOwner,          \* self._lock: 0 is free, else the thread holding it
    pending,            \* lines the remote shell has still to write
    chanBuf,            \* lines written and not yet returned by recv
    nextMarker,         \* calls made so far (each takes a fresh uuid)
    nextConn,           \* transports created so far
    pc,                 \* where each thread is inside execute_command
    call,               \* each thread's locals and history
    ret                 \* the CommandResult returned by the step just taken

vars ==
    << is_connected, shell_channel, ssh_client, session_recovery, lockOwner,
       pending, chanBuf, nextMarker, nextConn, pc, call, ret >>

session == << is_connected, shell_channel, ssh_client >>
transport == << pending, chanBuf >>

\* A thread that is not inside execute_command.
IdleCall ==
    [marker |-> 0, timeout |-> 0, elapsed |-> 0, sinceAcq |-> 0,
     dec |-> NoDecode, round |-> 0, probeElapsed |-> 0,
     status |-> "none", exit_code |-> None, stdout |-> <<>>,
     session_recovered |-> FALSE,
     \* history
     sessAtStart |-> <<>>, sessAtEnd |-> <<>>,
     sent |-> FALSE, got |-> 0, polled |-> 0, truthOut |-> <<>>, truthCode |-> None,
     exitedBy |-> "none", recovery |-> FALSE, probeSeen |-> FALSE,
     ioFail |-> "none", reconnect |-> "none",
     interrupts |-> 0, probes |-> 0]

\* No call returned in the step just taken.
NoRet == IdleCall

Init ==
    /\ is_connected = FALSE
    /\ shell_channel = 0
    /\ ssh_client = 0
    /\ session_recovery \in BOOLEAN
    /\ lockOwner = 0
    /\ pending = <<>>
    /\ chanBuf = <<>>
    /\ nextMarker = 0
    /\ nextConn = 0
    /\ pc = [t \in Threads |-> "idle"]
    /\ call = [t \in Threads |-> IdleCall]
    /\ ret = NoRet

\* ------------------------------------------------- connect and disconnect
Sess(ch, cl, conn) == [ch |-> ch, cl |-> cl, conn |-> conn]

\* disconnect(): the three ways its try block ends.  A close() that raises
\* leaves everything after it undone.
DisconnectOutcomes(ch, cl, conn) ==
    { Sess(0, 0, FALSE) }
    \cup (IF ch # 0 THEN { Sess(ch, cl, conn) } ELSE {})
    \cup (IF cl # 0 THEN { Sess(0, cl, conn) } ELSE {})

\* connect() that succeeds, with k the new client and its shell channel.
ConnectOk(k) == Sess(k, k, TRUE)

\* connect() that raises before invoke_shell returns (no credential, the
\* connection or authentication fails, the shell cannot be opened): the new
\* client is already in self.ssh_client, and disconnect() runs.
ConnectFailOutcomes(ch, conn, k) == DisconnectOutcomes(ch, k, conn)

\* The transport buffers after the session went from channel ch to ch2.
BufAfter(ch, ch2, buf) == IF ch2 = ch THEN buf ELSE <<>>

SetSession(o) ==
    /\ shell_channel' = o.ch
    /\ ssh_client' = o.cl
    /\ is_connected' = o.conn
    /\ pending' = BufAfter(shell_channel, o.ch, pending)
    /\ chanBuf' = BufAfter(shell_channel, o.ch, chanBuf)

\* connect() called by the owner of the session
Connect ==
    /\ lockOwner = 0
    /\ nextConn < MaxConn
    /\ nextConn' = nextConn + 1
    /\ \E o \in { ConnectOk(nextConn + 1) }
               \cup ConnectFailOutcomes(shell_channel, is_connected, nextConn + 1) :
          SetSession(o)
    /\ UNCHANGED << session_recovery, lockOwner, nextMarker, pc, call >>
    /\ ret' = NoRet

\* disconnect() called by the owner of the session
Disconnect ==
    /\ lockOwner = 0
    /\ \E o \in DisconnectOutcomes(shell_channel, ssh_client, is_connected) :
          SetSession(o)
    /\ UNCHANGED << session_recovery, lockOwner, nextMarker, nextConn, pc, call >>
    /\ ret' = NoRet

\* ------------------------------------------------------------ the remote
\* The remote shell writes its next line.
Emit ==
    /\ shell_channel # 0
    /\ pending # <<>>
    /\ chanBuf' = Append(chanBuf, Head(pending))
    /\ pending' = Tail(pending)
    /\ UNCHANGED << session, session_recovery, lockOwner, nextMarker, nextConn,
                    pc, call >>
    /\ ret' = NoRet

\* ------------------------------------------------------------------ time
Min(a, b) == IF a < b THEN a ELSE b

InCall(t) == pc[t] # "idle"
HoldsLock(t) == pc[t] \notin {"idle", "lock"}

\* One second passes, which it does not while a thread stands before a free
\* lock (taking a free lock takes no time).  elapsed is time.time() - start_time, read only
\* against the timeout, so it is kept up to the timeout; sinceAcq is the time
\* since the lock was taken (history); probeElapsed is time.time() -
\* start_time of test_session_responsiveness.
Ticked(t) ==
    [call[t] EXCEPT
       !.elapsed = IF InCall(t) THEN Min(@ + 1, call[t].timeout) ELSE @,
       !.sinceAcq = IF HoldsLock(t) THEN Min(@ + 1, call[t].timeout) ELSE @,
       !.probeElapsed = IF pc[t] = "probe_wait" THEN Min(@ + 1, ProbeWindow) ELSE @]

Tick ==
    /\ \A t \in Threads : pc[t] = "lock" => lockOwner # 0
    /\ call' = [t \in Threads |-> Ticked(t)]
    /\ call' # call
    /\ UNCHANGED << session, session_recovery, lockOwner, transport, nextMarker,
                    nextConn, pc >>
    /\ ret' = NoRet

\* -------------------------------------------------------- execute_command
\* timeout defaulting, start_time = time.time(): the call begins, before the
\* lock is asked for.
Call(t) ==
    /\ pc[t] = "idle"
    /\ nextMarker < MaxCalls
    /\ nextMarker' = nextMarker + 1
    /\ \E tm \in Timeouts :
          call' = [call EXCEPT ![t] =
                      [IdleCall EXCEPT !.marker = nextMarker + 1, !.timeout = tm]]
    /\ pc' = [pc EXCEPT ![t] = "lock"]
    /\ UNCHANGED << session, session_recovery, lockOwner, transport, nextConn >>
    /\ ret' = NoRet

\* mutant: the lock is not taken
LockFree_NoLock(t) == TRUE

\* with self._lock: the lock can be taken by thread t
LockFree(t) == lockOwner = 0

\* mutant: the check passes a session that still holds a channel
NotConnected_NeedsBoth == ~is_connected /\ shell_channel = 0

\* if not self.is_connected or not self.shell_channel
NotConnected == ~is_connected \/ shell_channel = 0

\* the CommandResult of a call on a session that is not connected
NotConnectedResult(c) ==
    [c EXCEPT !.status = "error", !.exit_code = None, !.stdout = <<>>,
              !.session_recovered = FALSE]

\* the CommandResult of the except Exception branch
ExceptionResult(c) ==
    [c EXCEPT !.status = "error", !.exit_code = None, !.stdout = <<>>,
              !.session_recovered = FALSE]

\* mutant: the result of a call that went to the forced reconnect says
\* RECOVERED
LoopResult_ReconnectRecovered(c, status, recovered) ==
    [c EXCEPT !.status = IF c.reconnect # "none" THEN "recovered" ELSE status,
              !.exit_code = c.dec.exit_code,
              !.stdout = c.dec.stdout, !.session_recovered = recovered]

\* the CommandResult built from the loop's locals
LoopResult(c, status, recovered) ==
    [c EXCEPT !.status = status, !.exit_code = c.dec.exit_code,
              !.stdout = c.dec.stdout, !.session_recovered = recovered]

\* The return: the result is complete, the lock is released.
Returned(t, c, sess) ==
    /\ ret' = [c EXCEPT !.sessAtEnd = sess]
    /\ call' = [call EXCEPT ![t] = IdleCall]
    /\ pc' = [pc EXCEPT ![t] = "idle"]
    /\ lockOwner' = 0

ReturnNotConnected(t) ==
    /\ pc[t] = "lock"
    /\ LockFree(t)
    /\ NotConnected
    /\ Returned(t, NotConnectedResult(
                     [call[t] EXCEPT !.sessAtStart = session]), session)
    /\ UNCHANGED << session, session_recovery, transport, nextMarker, nextConn >>

Begin(t) ==
    /\ pc[t] = "lock"
    /\ LockFree(t)
    /\ ~NotConnected
    /\ lockOwner' = t
    /\ pc' = [pc EXCEPT ![t] = "drain"]
    /\ call' = [call EXCEPT ![t].sessAtStart = session]
    /\ UNCHANGED << session, session_recovery, transport, nextMarker, nextConn >>
    /\ ret' = NoRet

\* self._drain_output() before the command is sent
Drain(t) ==
    /\ pc[t] = "drain"
    /\ chanBuf' = <<>>
    /\ pc' = [pc EXCEPT ![t] = "send"]
    /\ UNCHANGED << session, session_recovery, lockOwner, pending, nextMarker,
                    nextConn, call >>
    /\ ret' = NoRet

\* self.shell_channel.send(full_command + '\n') returns
SendOk(t) ==
    /\ pc[t] = "send"
    /\ shell_channel # 0
    /\ \E out \in OutChoices, code \in Codes :
          /\ pending' = pending \o FullCommandOutput(call[t].marker, out, code)
          /\ call' = [call EXCEPT ![t].sent = TRUE, ![t].truthOut = out,
                                  ![t].truthCode = code, ![t].dec = NoDecode]
    /\ pc' = [pc EXCEPT ![t] = "poll"]
    /\ UNCHANGED << session, session_recovery, lockOwner, chanBuf, nextMarker,
                    nextConn >>
    /\ ret' = NoRet

\* self.shell_channel.send raises: the outer except Exception returns
SendRaises(t) ==
    /\ pc[t] = "send"
    /\ Returned(t, ExceptionResult([call[t] EXCEPT !.ioFail = "send"]), session)
    /\ UNCHANGED << session, session_recovery, transport, nextMarker, nextConn >>

\* while time.time() < end_time
BeforeDeadline(c) == c.elapsed < c.timeout

\* lines of a chunk that belong to the frame of call m (history)
RECURSIVE OwnCount(_, _)
OwnCount(m, lines) ==
    IF lines = <<>> THEN 0
    ELSE (IF Head(lines).own = m THEN 1 ELSE 0) + OwnCount(m, Tail(lines))

\* data = self.shell_channel.recv(4096) returns what is buffered; the chunk
\* is split into lines and decoded.  (recv returning nothing, or raising
\* anything but SSHException, sleeps and goes round again: no change.)
RecvData(t) ==
    /\ pc[t] = "poll"
    /\ BeforeDeadline(call[t])
    /\ chanBuf # <<>>
    /\ LET d == DecodeLines(call[t].marker, chanBuf, call[t].dec)
       IN /\ call' = [call EXCEPT
                        ![t].dec = d,
                        ![t].got = @ + OwnCount(call[t].marker, chanBuf),
                        ![t].exitedBy = IF LoopDone(d) THEN "done" ELSE @]
          /\ pc' = [pc EXCEPT ![t] = IF LoopDone(d) THEN "classify" ELSE "poll"]
    /\ chanBuf' = <<>>
    /\ UNCHANGED << session, session_recovery, lockOwner, pending, nextMarker,
                    nextConn >>
    /\ ret' = NoRet

\* recv raises paramiko.ssh_exception.SSHException: break
RecvRaisesSSHException(t) ==
    /\ pc[t] = "poll"
    /\ BeforeDeadline(call[t])
    /\ call' = [call EXCEPT ![t].exitedBy = "exception", ![t].ioFail = "recv"]
    /\ pc' = [pc EXCEPT ![t] = "classify"]
    /\ UNCHANGED << session, session_recovery, lockOwner, transport, nextMarker,
                    nextConn >>
    /\ ret' = NoRet

\* the while condition is false: the deadline has passed
LoopExit(t) ==
    /\ pc[t] = "poll"
    /\ ~BeforeDeadline(call[t])
    /\ call' = [call EXCEPT ![t].exitedBy = "deadline",
                            ![t].polled = call[t].sinceAcq]
    /\ pc' = [pc EXCEPT ![t] = "classify"]
    /\ UNCHANGED << session, session_recovery, lockOwner, transport, nextMarker,
                    nextConn >>
    /\ ret' = NoRet

\* if not command_started: ERROR / elif time.time() >= end_time: TIMEOUT /
\* else: SUCCESS
Status(c) ==
    IF ~c.dec.started THEN "error"
    ELSE IF ~BeforeDeadline(c) THEN "timeout"
    ELSE "success"

\* the status is decided; ERROR and SUCCESS return, TIMEOUT calls
\* try_session_recovery(), which returns False at once when session
\* recovery is off
Classify(t) ==
    /\ pc[t] = "classify"
    /\ IF Status(call[t]) = "timeout"
       THEN /\ call' = [call EXCEPT ![t].recovery = TRUE,
                                    ![t].round = IF session_recovery THEN 1 ELSE 0]
            /\ pc' = [pc EXCEPT ![t] =
                        IF session_recovery THEN "interrupt" ELSE "reconnect"]
            /\ ret' = NoRet
            /\ UNCHANGED lockOwner
       ELSE Returned(t, LoopResult(call[t], Status(call[t]), FALSE), session)
    /\ UNCHANGED << session, session_recovery, transport, nextMarker, nextConn >>

\* --------------------------------------------------- try_session_recovery
\* send_interrupt_signals(): Ctrl-C, ESC, newline, Ctrl-C newline, q newline
\* go to the channel when there is one; any exception is swallowed.
Interrupt(t) ==
    /\ pc[t] = "interrupt"
    /\ call' = [call EXCEPT ![t].sent = @ \/ shell_channel # 0,
                            ![t].interrupts = @ + 1]
    /\ pc' = [pc EXCEPT ![t] = "rdrain"]
    /\ UNCHANGED << session, session_recovery, lockOwner, transport, nextMarker,
                    nextConn >>
    /\ ret' = NoRet

\* self._drain_output() of a recovery round
RecoveryDrain(t) ==
    /\ pc[t] = "rdrain"
    /\ chanBuf' = <<>>
    /\ pc' = [pc EXCEPT ![t] = "probe_send"]
    /\ UNCHANGED << session, session_recovery, lockOwner, pending, nextMarker,
                    nextConn, call >>
    /\ ret' = NoRet

\* test_session_responsiveness(): echo 'RECOVERY_TEST_<id>' is sent
ProbeSendOk(t) ==
    /\ pc[t] = "probe_send"
    /\ shell_channel # 0
    /\ pending' = pending \o TestCommandOutput(call[t].marker, call[t].round)
    /\ call' = [call EXCEPT ![t].sent = TRUE, ![t].probeElapsed = 0,
                            ![t].probes = @ + 1]
    /\ pc' = [pc EXCEPT ![t] = "probe_wait"]
    /\ UNCHANGED << session, session_recovery, lockOwner, chanBuf, nextMarker,
                    nextConn >>
    /\ ret' = NoRet

\* mutant: a fourth round is started after the third failed probe
AfterFailedProbe_FourRounds(t, c) ==
    IF c.round < RecoveryRounds + 1
    THEN /\ call' = [call EXCEPT ![t] = [c EXCEPT !.round = @ + 1]]
         /\ pc' = [pc EXCEPT ![t] = "interrupt"]
    ELSE /\ call' = [call EXCEPT ![t] = c]
         /\ pc' = [pc EXCEPT ![t] = "reconnect"]

\* for _ in range(2): one more round after a failed probe, or give up
AfterFailedProbe(t, c) ==
    IF c.round < RecoveryRounds
    THEN /\ call' = [call EXCEPT ![t] = [c EXCEPT !.round = @ + 1]]
         /\ pc' = [pc EXCEPT ![t] = "interrupt"]
    ELSE /\ call' = [call EXCEPT ![t] = c]
         /\ pc' = [pc EXCEPT ![t] = "reconnect"]

\* the probe's send raises: test_session_responsiveness returns False
ProbeSendRaises(t) ==
    /\ pc[t] = "probe_send"
    /\ AfterFailedProbe(t, [call[t] EXCEPT !.probes = @ + 1])
    /\ UNCHANGED << session, session_recovery, lockOwner, transport, nextMarker,
                    nextConn >>
    /\ ret' = NoRet

\* mutant: the probe looks for the marker of the first round's probe
TestMarkerIn_FirstRound(chunk, m, r) ==
    \E i \in 1..Len(chunk) : Contains(chunk[i].toks, ProbeTok(m, 1))

\* if test_marker in output, for the chunk one recv returned
TestMarkerIn(chunk, m, r) ==
    \E i \in 1..Len(chunk) : Contains(chunk[i].toks, ProbeTok(m, r))

\* while time.time() - start_time < 3
InProbeWindow(c) == c.probeElapsed < ProbeWindow

\* one recv of the probe's wait loop returns data.  A probe that finds its
\* marker ends the recovery with True: the call returns RECOVERED.
ProbeRecv(t) ==
    /\ pc[t] = "probe_wait"
    /\ InProbeWindow(call[t])
    /\ chanBuf # <<>>
    /\ chanBuf' = <<>>
    /\ LET seen == \E i \in 1..Len(chanBuf) :
                      chanBuf[i] = Line(0, <<ProbeTok(call[t].marker, call[t].round)>>)
           c == [call[t] EXCEPT !.probeSeen = @ \/ seen]
       IN IF TestMarkerIn(chanBuf, call[t].marker, call[t].round)
          THEN Returned(t, LoopResult(c, "recovered", TRUE), session)
          ELSE /\ call' = [call EXCEPT ![t] = c]
               /\ ret' = NoRet
               /\ UNCHANGED << pc, lockOwner >>
    /\ UNCHANGED << session, session_recovery, pending, nextMarker, nextConn >>

\* the probe's three seconds are over: test_session_responsiveness
\* returns False
ProbeTimeout(t) ==
    /\ pc[t] = "probe_wait"
    /\ ~InProbeWindow(call[t])
    /\ AfterFailedProbe(t, call[t])
    /\ UNCHANGED << session, session_recovery, lockOwner, transport, nextMarker,
                    nextConn >>
    /\ ret' = NoRet

\* -------------------------------------------------------- force_reconnect
\* self.is_connected = False after force_reconnect() returned False
MarkDisconnected(o) == [o EXCEPT !.conn = FALSE]

\* recovery failed: force_reconnect() is disconnect(), a pause, connect();
\* the call returns TIMEOUT either way.
ForceReconnect(t) ==
    /\ pc[t] = "reconnect"
    /\ nextConn < MaxConn
    /\ nextConn' = nextConn + 1
    /\ \E o1 \in DisconnectOutcomes(shell_channel, ssh_client, is_connected) :
          \/ /\ SetSession(ConnectOk(nextConn + 1))
             /\ Returned(t, LoopResult([call[t] EXCEPT !.reconnect = "ok"],
                                       "timeout", FALSE),
                         << TRUE, nextConn + 1, nextConn + 1 >>)
          \/ \E o2 \in ConnectFailOutcomes(o1.ch, o1.conn, nextConn + 1) :
                /\ SetSession(MarkDisconnected(o2))
                /\ Returned(t, LoopResult([call[t] EXCEPT !.reconnect = "failed"],
                                          "timeout", FALSE),
                            << FALSE, o2.ch, o2.cl >>)
    /\ UNCHANGED << session_recovery, nextMarker >>

\* ----------------------------------------------------------- specification
Next ==
    \/ Connect
    \/ Disconnect
    \/ Emit
    \/ Tick
    \/ \E t \in Threads :
          \/ Call(t)
          \/ ReturnNotConnected(t)
          \/ Begin(t)
          \/ Drain(t)
          \/ SendOk(t)
          \/ SendRaises(t)
          \/ RecvData(t)
          \/ RecvRaisesSSHException(t)
          \/ LoopExit(t)
          \/ Classify(t)
          \/ Interrupt(t)
          \/ RecoveryDrain(t)
          \/ ProbeSendOk(t)
          \/ ProbeSendRaises(t)
          \/ ProbeRecv(t)
          \/ ProbeTimeout(t)
          \/ ForceReconnect(t)

Spec == Init /\ [][Next]_vars

\* ------------------------------------------------------------------ claims
Returns == ret.status # "none"

\* the session fields <<is_connected, shell_channel, ssh_client>> pass the
\* connection check of execute_command
ConnectedAt(sess) == sess[1] /\ sess[2] # 0

\* the text of the lines of a result's stdout
Text(lines) == [i \in 1..Len(lines) |-> lines[i].toks]

\* C1: single-flight.  At most one call at a time is between its drain/send
\* and the classification of its status (recovery and forced reconnect
\* included), that call holds the session lock, and every stdout line of a
\* returned result was printed by the call's own command.
C1_SingleFlight ==
    /\ \A t, u \in Threads : (t # u /\ HoldsLock(t)) => ~HoldsLock(u)
    /\ \A t \in Threads : HoldsLock(t) => lockOwner = t
    /\ Returns => \A i \in 1..Len(ret.stdout) : ret.stdout[i].own = ret.marker

\* A call is reading its framed output while another call waits for the lock.
C1_Witness ==
    \E t, u \in Threads :
        /\ pc[t] = "poll" /\ call[t].dec.started /\ chanBuf # <<>>
        /\ pc[u] = "lock" /\ call[u].elapsed > 0

\* The receive loop received every line of the call's own framed output
\* (start marker, output lines, end marker, EXIT_CODE line) before its
\* deadline (RecvData is the only place lines are received, and it runs
\* before the deadline only), and no recv raised.
FrameReceived(r) ==
    /\ r.sent /\ r.truthCode # None /\ r.ioFail = "none"
    /\ r.got = Len(r.truthOut) + 3

\* The deadline passed between the loop's break on DONE and the status test.
LateStatusTest(r) == r.exitedBy = "done" /\ ~BeforeDeadline(r)

\* C2: a call whose transport delivers the whole framed output before the
\* deadline returns SUCCESS, the remote exit code, and as stdout exactly the
\* lines printed between the two markers, in order.
C2_FramedOutputSuccess ==
    (Returns /\ FrameReceived(ret) /\ ~LateStatusTest(ret))
        => /\ ret.status = "success"
           /\ ret.exit_code = ret.truthCode
           /\ Text(ret.stdout) = ret.truthOut

\* The scenario `echo hello` with exit 0: SUCCESS, exit code 0, stdout hello.
C2_Witness ==
    /\ Returns /\ FrameReceived(ret)
    /\ ret.truthOut = << <<CH(1)>> >> /\ ret.truthCode = 0
    /\ ret.status = "success" /\ ret.exit_code = 0
    /\ Text(ret.stdout) = << <<CH(1)>> >>

\* C3: nothing left over from an earlier call contributes to a result:
\* every stdout line and the line that set exit_code were printed by the
\* call's own framed command.
C3_NoStaleAttribution ==
    Returns =>
        /\ \A i \in 1..Len(ret.stdout) : ret.stdout[i].own = ret.marker
        /\ ret.exit_code # None => ret.dec.exitFrom = ret.marker

\* A call returns after lines of an earlier call arrived before its own
\* start marker.
C3_Witness ==
    /\ Returns /\ ret.marker = 2 /\ ret.dec.started
    /\ ret.dec.exitFrom = 1

\* C4: SUCCESS is returned only when the loop reached DONE: the call's end
\* marker and a parsed exit-code line were seen, so exit_code is set.
C4_SuccessOnlyWhenDone ==
    (Returns /\ ret.status = "success")
        => ret.dec.ended /\ ret.exit_code # None /\ ret.exitedBy = "done"

\* C5: a call whose deadline passed before DONE was decoded, whether or not
\* its start marker was seen, ran the recovery and ends RECOVERED, TIMEOUT or
\* with the session marked disconnected.
C5_TimeoutAlwaysRecovers ==
    (Returns /\ ret.exitedBy = "deadline")
        => /\ ret.recovery
           /\ ret.status \in {"recovered", "timeout"} \/ ~ret.sessAtEnd[1]

\* The part of C5 the code keeps: with the start marker seen.
C5_Witness ==
    /\ Returns /\ ret.exitedBy = "deadline" /\ ret.dec.started
    /\ ret.recovery /\ ret.status \in {"recovered", "timeout"}

C7_FullTimeoutAfterWait ==
    (Returns /\ ret.exitedBy = "deadline") => ret.polled >= ret.timeout

\* C8: a transport failure during send or recv gives ERROR for that call and
\* leaves the session as it was.
C8_TransportErrorIsLocal ==
    (Returns /\ ret.ioFail # "none")
        => ret.status = "error" /\ ret.sessAtEnd = ret.sessAtStart

\* send raised: ERROR, session untouched.
C8_Witness ==
    /\ Returns /\ ret.ioFail = "send"
    /\ ret.status = "error" /\ ret.sessAtEnd = ret.sessAtStart

\* C9: a call on a session that is not connected returns ERROR with no exit
\* code and no stdout, sends nothing, starts no recovery or reconnect, and
\* leaves the session as it was.
C9_NotConnectedError ==
    (Returns /\ ~ConnectedAt(ret.sessAtStart))
        => /\ ret.status = "error"
           /\ ret.exit_code = None
           /\ ret.stdout = <<>>
           /\ ~ret.sent
           /\ ~ret.recovery
           /\ ret.reconnect = "none"
           /\ ret.sessAtEnd = ret.sessAtStart

\* The second call finds the session not connected after a transport had
\* been created.
C9_Witness ==
    /\ Returns /\ ~ConnectedAt(ret.sessAtStart)
    /\ ret.marker = 2 /\ nextConn > 0
    /\ ret.status = "error"

\* C10: after a failed recovery the call returns TIMEOUT with
\* session_recovered false; a failed reconnect leaves the session marked
\* disconnected with no channel and no client, a successful one leaves it
\* connected on a new transport.
C10_ForcedReconnectOutcome ==
    (Returns /\ ret.reconnect # "none")
        => /\ ret.status = "timeout"
           /\ ~ret.session_recovered
           /\ ret.reconnect = "failed" => ret.sessAtEnd = << FALSE, 0, 0 >>
           /\ ret.reconnect = "ok" =>
                 /\ ConnectedAt(ret.sessAtEnd)
                 /\ ret.sessAtEnd[2] # ret.sessAtStart[2]

\* A failed recovery followed by a successful reconnect.
C10_Witness ==
    /\ Returns /\ ret.reconnect = "ok" /\ ret.round = RecoveryRounds
    /\ ret.status = "timeout" /\ ConnectedAt(ret.sessAtEnd)

\* C11: the recovery runs at most three rounds of interrupt, drain and
\* probe; it returns success at the first round whose probe succeeds (as
\* many probes as rounds, no round after it), failure after the third failed
\* probe, and failure at once with nothing sent when session recovery is off.
C11_RecoveryRounds ==
    /\ \A t \in Threads :
          /\ call[t].round <= RecoveryRounds
          /\ call[t].interrupts <= call[t].round
          /\ call[t].probes <= call[t].round
          /\ pc[t] = "reconnect" =>
                IF session_recovery
                THEN call[t].round = RecoveryRounds
                     /\ call[t].probes = RecoveryRounds
                ELSE call[t].round = 0 /\ call[t].interrupts = 0
                     /\ call[t].probes = 0
    /\ (Returns /\ ret.status = "recovered") =>
          /\ ret.round \in 1..RecoveryRounds
          /\ ret.interrupts = ret.round /\ ret.probes = ret.round
    /\ (Returns /\ ret.recovery /\ ret.status = "timeout") =>
          IF session_recovery
          THEN ret.round = RecoveryRounds /\ ret.probes = RecoveryRounds
          ELSE ret.round = 0 /\ ret.interrupts = 0 /\ ret.probes = 0

\* The third probe failed and the recovery gave up.
C11_Witness ==
    \E t \in Threads :
        /\ pc[t] = "reconnect" /\ session_recovery
        /\ call[t].round = RecoveryRounds /\ call[t].probes = RecoveryRounds

\* ====================================================== the sudo rewriter
\* A command, a password and every other text of this part is a sequence of
\* one-character strings.
MaxSimpleCommands == 2

SudoTimeoutCeiling == 30

WordChars ==
    {"s", "u", "d", "o", "n", "S", "c", "x", "e", "h", "p", "q", "E", "F"}
SpaceChars == {" ", "\t", "\n"}

SudoText == <<"s", "u", "d", "o">>
SuText == <<"s", "u">>
SudoSpace == SudoText \o <<" ">>
DashN == <<"-", "n">>
DashS == <<"-", "S">>
DashC == <<"-", "c">>
SudoDashN == SudoText \o <<" ">> \o DashN \o <<" ">>
SudoDashS == SudoText \o <<" ">> \o DashS \o <<" ">>

\* the simple commands a command line is made of:
\*   sudo x;   sudo -n x;   sudo -S x;   sudo x -n;   sudo x -S;   sudo<TAB>x;
\*   sudo  -n x;   sudo -nx;   xsudo x;   su x;   su -c x;   x;   x -n;
SimpleCommands ==
    { SudoSpace \o <<"x", ";">>,
      SudoDashN \o <<"x", ";">>,
      SudoDashS \o <<"x", ";">>,
      SudoSpace \o <<"x", " ">> \o DashN \o <<";">>,
      SudoSpace \o <<"x", " ">> \o DashS \o <<";">>,
      SudoText \o <<"\t", "x", ";">>,
      SudoSpace \o <<" ">> \o DashN \o <<" ", "x", ";">>,
      SudoSpace \o DashN \o <<"x", ";">>,
      <<"x">> \o SudoSpace \o <<"x", ";">>,
      SuText \o <<" ", "x", ";">>,
      SuText \o <<" ">> \o DashC \o <<" ", "x", ";">>,
      <<"x", ";">>,
      <<"x", " ">> \o DashN \o <<";">> }

RECURSIVE CommandsOf(_)
CommandsOf(n) ==
    IF n = 0 THEN { <<>> }
    ELSE CommandsOf(n - 1)
         \cup { f \o c : f \in SimpleCommands, c \in CommandsOf(n - 1) }

Commands == CommandsOf(MaxSimpleCommands)

\* None where a text may stand (no text holds a string of several characters)
NoText == << "None" >>

\* passwords: None, the empty text, a text
LoginPasswords == { NoText, <<"q">> }
SudoPasswords == { NoText, <<"p">> }
CallSudoPasswords == { NoText, <<>>, <<"p">> }
RequestedTimeouts == { None, 10, 60 }
DefaultCommandTimeouts == { 20, 300 }

\* bool(p) of an Optional[str]
Truthy(p) == p # NoText /\ p # <<>>

\* a or b
Or(a, b) == IF Truthy(a) THEN a ELSE b

\* \w at position i of s (false outside s)
IsWord(s, i) == i \in 1..Len(s) /\ s[i] \in WordChars

\* \b before position i of s
WordBoundary(s, i) == IsWord(s, i - 1) # IsWord(s, i)

\* s.startswith(lit, i)
StartsWithAt(s, i, lit) ==
    i + Len(lit) - 1 <= Len(s) /\ SubSeq(s, i, i + Len(lit) - 1) = lit

\* lit in s
InText(lit, s) == \E i \in 1..Len(s) : StartsWithAt(s, i, lit)

\* the position after the run of whitespace that starts at i
RECURSIVE SpaceRunEnd(_, _)
SpaceRunEnd(s, i) ==
    IF i <= Len(s) /\ s[i] \in SpaceChars THEN SpaceRunEnd(s, i + 1) ELSE i

\* (?!-[letters]\b) at position p
NotOption(s, p, letters) ==
    ~(p + 1 <= Len(s) /\ s[p] = "-" /\ s[p + 1] \in letters
      /\ WordBoundary(s, p + 2))

\* r'\bword\s+(?!-[letters]\b)' matches at position i; \s+ gives back
\* whitespace until the lookahead holds
PatternAt(s, i, pattern) ==
    /\ WordBoundary(s, i)
    /\ StartsWithAt(s, i, pattern.word)
    /\ \E e \in (i + Len(pattern.word) + 1)..SpaceRunEnd(s, i + Len(pattern.word)) :
          NotOption(s, e, pattern.letters)

\* self.sudo_patterns
sudo_patterns ==
    << [word |-> SudoText, letters |-> {"n", "S"}],
       [word |-> SuText, letters |-> {"c"}] >>

\* re.search(pattern, command)
Search(pattern, command) == \E i \in 1..Len(command) : PatternAt(command, i, pattern)

detect_sudo_command(command) ==
    \E k \in 1..Len(sudo_patterns) : Search(sudo_patterns[k], command)

\* re.sub(r'\bsudo\s+', repl, s), from position i on
RECURSIVE SubSudo(_, _, _)
SubSudo(s, i, repl) ==
    IF i > Len(s) THEN <<>>
    ELSE IF /\ WordBoundary(s, i)
            /\ StartsWithAt(s, i, SudoText)
            /\ SpaceRunEnd(s, i + 4) > i + 4
         THEN repl \o SubSudo(s, SpaceRunEnd(s, i + 4), repl)
         ELSE << s[i] >> \o SubSudo(s, i + 1, repl)

\* f"echo '{password}' | "
EchoPipe(password) ==
    <<"e", "c", "h", "o", " ", "'">> \o password \o <<"'", " ", "|", " ">>

\* mutant: the password branch does not look for -S in the command
PasswordBranch_AnyCommand(password, command) ==
    Truthy(password) /\ InText(SudoSpace, command)

\* if password and 'sudo ' in command and '-S' not in command
PasswordBranch(password, command) ==
    Truthy(password) /\ InText(SudoSpace, command) /\ ~InText(DashS, command)

\* elif 'sudo ' in command and '-n' not in command and '-S' not in command
NonInteractiveBranch(command) ==
    InText(SudoSpace, command) /\ ~InText(DashN, command)
    /\ ~InText(DashS, command)

\* fix_sudo_command of an executor o, as <<command, was_fixed>>
fix_sudo_command(o, command, sudo_password) ==
    IF ~o.auto_sudo_fix \/ ~detect_sudo_command(command)
    THEN << command, FALSE >>
    ELSE LET password == Or(sudo_password, o.sudo_password)
         IN IF PasswordBranch(password, command)
              THEN << EchoPipe(password) \o SubSudo(command, 1, SudoDashS), TRUE >>
            ELSE IF NonInteractiveBranch(command)
              THEN << SubSudo(command, 1, SudoDashN), TRUE >>
            ELSE << command, FALSE >>

\* mutant: the timeout of a rewritten call is not clamped
ClampTimeout_Unclamped(timeout) == timeout

\* timeout = min(timeout, 30.0)
ClampTimeout(timeout) == Min(timeout, SudoTimeoutCeiling)

\* if timeout is None: timeout = self.default_command_timeout
DefaultedTimeout(o, timeout) ==
    IF timeout = None THEN o.default_command_timeout ELSE timeout

\* execute_command up to the lock: the command, auto_fixed and the timeout
\* the receive loop will run with (end_time = start_time + timeout)
ExecutePrologue(o, command, timeout, sudo_password) ==
    LET fixed == IF detect_sudo_command(command)
                 THEN fix_sudo_command(o, command, sudo_password)
                 ELSE << command, FALSE >>
    IN [command |-> fixed[1], auto_fixed |-> fixed[2],
        timeout |-> IF fixed[2] THEN ClampTimeout(DefaultedTimeout(o, timeout))
                    ELSE DefaultedTimeout(o, timeout)]

\* In SudoSpec, call is an executor as __init__ leaves it, with the command
\* about to be passed to it; ret is what the operation just applied returned;
\* pc says which operation that was.
NewExecutor(password, sudo_password, auto_sudo_fix, default_command_timeout) ==
    [sudo_password |-> Or(sudo_password, password),
     auto_sudo_fix |-> auto_sudo_fix,
     default_command_timeout |-> default_command_timeout]

SudoInit ==
    /\ is_connected = FALSE
    /\ shell_channel = 0
    /\ ssh_client = 0
    /\ session_recovery = TRUE
    /\ lockOwner = 0
    /\ pending = <<>>
    /\ chanBuf = <<>>
    /\ nextMarker = 0
    /\ nextConn = 0
    /\ pc = "new"
    /\ \E password \in LoginPasswords, sudo_password \in SudoPasswords,
          auto_sudo_fix \in BOOLEAN, dct \in DefaultCommandTimeouts,
          command \in Commands :
          call = [o |-> NewExecutor(password, sudo_password, auto_sudo_fix, dct),
                  command |-> command]
    /\ ret = <<>>

SudoFrame ==
    UNCHANGED << session, session_recovery, lockOwner, transport, nextMarker,
                 nextConn, call >>

\* fix_sudo_command(command, sudo_password) is called
FixSudoCommand ==
    /\ pc = "new"
    /\ \E sudo_password \in CallSudoPasswords :
          LET r == fix_sudo_command(call.o, call.command, sudo_password)
          IN ret' = [sudo_password |-> sudo_password, command |-> r[1],
                     was_fixed |-> r[2], first |-> <<>>]
    /\ pc' = "fixed"
    /\ SudoFrame

\* fix_sudo_command is called on the command it returned
FixSudoCommandAgain ==
    /\ pc = "fixed"
    /\ LET r == fix_sudo_command(call.o, ret.command, ret.sudo_password)
       IN ret' = [ret EXCEPT !.command = r[1], !.was_fixed = r[2],
                             !.first = << ret.command, ret.was_fixed >>]
    /\ pc' = "refixed"
    /\ SudoFrame

\* execute_command(command, timeout, sudo_password=...) runs up to the lock
ExecuteCommandPrologue ==
    /\ pc = "new"
    /\ \E timeout \in RequestedTimeouts, sudo_password \in CallSudoPasswords :
          LET r == ExecutePrologue(call.o, call.command, timeout, sudo_password)
          IN ret' = [sudo_password |-> sudo_password, requested |-> timeout,
                     command |-> r.command, auto_fixed |-> r.auto_fixed,
                     timeout |-> r.timeout]
    /\ pc' = "lock"
    /\ SudoFrame

\* the ways execute_command builds its CommandResult: the not-connected
\* return, the return after the loop with each status and recovery note, the
\* except Exception branch
ResultOutcomes ==
    { "not_connected", "success", "error", "recovered", "reconnected",
      "disconnected", "exception" }

\* stderr of the result: the fixed message, stderr_text (nothing is ever put
\* in stderr_lines) with the notes of the recovery, or str(e)
ResultStderr(outcome) ==
    CASE outcome = "not_connected" -> "not connected"
      [] outcome \in {"success", "error"} -> ""
      [] outcome = "recovered" -> "[recovered]"
      [] outcome = "reconnected" -> "[recovery failed][reconnected]"
      [] outcome = "disconnected" -> "[recovery failed][reconnect failed]"
      [] outcome = "exception" -> "str(e)"

\* mutant: the result carries the command that was sent
ResultCommand_Sent(original_command, command) == command

\* command=original_command
ResultCommand(original_command, command) == original_command

\* the fields command, original_command, stderr and auto_fixed of the
\* CommandResult of execute_command(command, timeout, sudo_password)
ResultFields(o, command, timeout, sudo_password, outcome) ==
    LET r == ExecutePrologue(o, command, timeout, sudo_password)
    IN [command |-> ResultCommand(command, r.command),
        original_command |->
            IF outcome = "not_connected" \/ r.auto_fixed THEN command ELSE NoText,
        stderr |-> ResultStderr(outcome),
        auto_fixed |-> r.auto_fixed]

\* another value for a password that is set
OtherPassword(password) == IF Truthy(password) THEN <<"r">> ELSE password

\* execute_command returns; twin is the result of the same call on the same
\* executor with another value for each password that is set
ExecuteCommandReturns ==
    /\ pc = "lock"
    /\ \E outcome \in ResultOutcomes :
          ret' = [sudo_password |-> ret.sudo_password, outcome |-> outcome,
                  sent |-> ret.command,
                  result |-> ResultFields(call.o, call.command, ret.requested,
                                          ret.sudo_password, outcome),
                  twin |-> ResultFields(
                               [call.o EXCEPT !.sudo_password = OtherPassword(@)],
                               call.command, ret.requested,
                               OtherPassword(ret.sudo_password), outcome)]
    /\ pc' = "returned"
    /\ SudoFrame

SudoNext ==
    \/ FixSudoCommand
    \/ FixSudoCommandAgain
    \/ ExecuteCommandPrologue
    \/ ExecuteCommandReturns

SudoSpec == SudoInit /\ [][SudoNext]_vars

\* ------------------------------------------------- claims on the rewriter
\* a bare `sudo ` at position i, in the narrowest sense: the word sudo and a
\* space, and what follows (after any more whitespace) starts with neither
\* -n nor -S
BareSudoAt(c, i) ==
    /\ WordBoundary(c, i)
    /\ StartsWithAt(c, i, SudoSpace)
    /\ ~StartsWithAt(c, SpaceRunEnd(c, i + Len(SudoText)), DashN)
    /\ ~StartsWithAt(c, SpaceRunEnd(c, i + Len(SudoText)), DashS)

HasBareSudo(c) == \E i \in 1..Len(c) : BareSudoAt(c, i)

FirstBareSudo(c) ==
    CHOOSE i \in 1..Len(c) :
        BareSudoAt(c, i) /\ \A j \in 1..(i - 1) : ~BareSudoAt(c, j)

\* c with its first bare `sudo ` replaced by repl and nothing else changed
RewriteFirstBare(c, repl) ==
    SubSeq(c, 1, FirstBareSudo(c) - 1) \o repl
    \o SubSeq(c, FirstBareSudo(c) + Len(SudoSpace), Len(c))

\* the password the rewriter has for the operation just applied
PasswordFor == Or(ret.sudo_password, call.o.sudo_password)

\* C12: with auto-fix on and no sudo password for the call or the session, a
\* command with a bare `sudo ` comes back from fix_sudo_command with every
\* `sudo ` made `sudo -n ` and the flag true, and execute_command has
\* auto_fixed true and a timeout of at most 30 seconds.
C12_SudoRewriteNoPassword ==
    (/\ pc \in {"fixed", "lock"}
     /\ call.o.auto_sudo_fix
     /\ ~Truthy(PasswordFor)
     /\ HasBareSudo(call.command))
        => /\ pc = "fixed" =>
                 /\ ret.was_fixed
                 /\ ret.command = SubSudo(call.command, 1, SudoDashN)
           /\ pc = "lock" =>
                 /\ ret.auto_fixed
                 /\ ret.timeout <= SudoTimeoutCeiling

\* The scenario `sudo x`, no password, a timeout of 60 asked for: the call
\* runs `sudo -n x` with auto_fixed and a timeout of 30.
C12_Witness ==
    /\ pc = "lock"
    /\ call.o.auto_sudo_fix /\ ~Truthy(PasswordFor)
    /\ call.command = SudoSpace \o <<"x", ";">>
    /\ ret.command = SudoDashN \o <<"x", ";">>
    /\ ret.auto_fixed /\ ret.requested = 60 /\ ret.timeout = SudoTimeoutCeiling

\* C13: with auto-fix on and a password (the call's or the session's), a
\* command with a bare `sudo ` comes back with the flag true, as echo
\* '<password>' | followed by the command in which the first bare `sudo ` is
\* `sudo -S ` and nothing else has changed.
C13_SudoRewriteWithPassword ==
    (/\ pc = "fixed"
     /\ call.o.auto_sudo_fix
     /\ Truthy(PasswordFor)
     /\ HasBareSudo(call.command))
        => /\ ret.was_fixed
           /\ ret.command =
                 EchoPipe(PasswordFor) \o RewriteFirstBare(call.command, SudoDashS)

\* `sudo x` with the session's password becomes echo 'p' | sudo -S x.
C13_Witness ==
    /\ pc = "fixed"
    /\ call.o.auto_sudo_fix /\ PasswordFor = <<"p">>
    /\ call.command = SudoSpace \o <<"x", ";">>
    /\ ret.was_fixed
    /\ ret.command = EchoPipe(<<"p">>) \o SudoDashS \o <<"x", ";">>

\* C14: with auto-fix on, a command with a sudo not followed by -n or -S (on
\* which the detection fires) comes back rewritten with the flag true and
\* with no such sudo left; a command that comes back with the flag false
\* comes back as it was, and then auto-fix is off or it has no such sudo.
C14_DetectedMeansRewritten ==
    pc = "fixed" =>
        /\ (call.o.auto_sudo_fix /\ HasBareSudo(call.command))
              => /\ detect_sudo_command(call.command)
                 /\ ret.was_fixed
                 /\ ~HasBareSudo(ret.command)
        /\ ~ret.was_fixed
              => /\ ret.command = call.command
                 /\ ~call.o.auto_sudo_fix \/ ~HasBareSudo(call.command)

\* Two bare sudos, both detected and rewritten, none left.
C14_Witness ==
    /\ pc = "fixed"
    /\ call.o.auto_sudo_fix
    /\ call.command = SudoSpace \o <<"x", ";">> \o SudoSpace \o <<"x", ";">>
    /\ ret.was_fixed /\ ~HasBareSudo(ret.command)

\* a command that already contains `sudo -n` or `sudo -S`
SafeInput(c) ==
    InText(SudoSpace \o DashN, c) \/ InText(SudoSpace \o DashS, c)

AskedTimeout ==
    IF ret.requested = None THEN call.o.default_command_timeout
    ELSE ret.requested

\* C16: a rewritten call runs its receive loop with min(timeout asked for, 30
\* seconds); a call that was not rewritten with the caller's timeout, or the
\* session default when the caller gave none.
C16_EffectiveTimeout ==
    pc = "lock" =>
        ret.timeout = IF ret.auto_fixed
                      THEN (IF AskedTimeout < 30 THEN AskedTimeout ELSE 30)
                      ELSE AskedTimeout

\* A rewritten call that asked for 60 seconds runs with 30; one that gave no
\* timeout and was not rewritten runs with the default.
C16_Witness ==
    /\ pc = "lock"
    /\ \/ ret.auto_fixed /\ ret.requested = 60 /\ ret.timeout = 30
       \/ ~ret.auto_fixed /\ ret.requested = None
          /\ ret.timeout = call.o.default_command_timeout

\* ================================================= the heredoc detector
MaxBodyLines == 2

SimpleIndentLimit == 8

NL == << "\n" >>
QuoteChars == {"'", "\""}

Spaces(n) == [i \in 1..n |-> " "]

\* A command with a heredoc is made of: the line with the redirection, the
\* body lines, the terminator line (the token E behind some indentation)
\* with or without a newline after it, and maybe a whole heredoc of token F
\* before all that.  The last head redirects the input from a file E: with
\* it and nothing before it the command holds no heredoc at all.
HeredocToken == << "E" >>

HeredocHeads ==
    { <<"x", " ", "<", "<", "E">>,
      <<"x", " ", "<", "<", "-", "E">>,
      <<"x", " ", "<", "<", " ", "'", "E", "'">>,
      SudoSpace \o <<"x", " ", "<", "<", "E">>,
      <<"x", " ", "<", "E">> }

\* a body line: some text, the token behind a space, the token before a space
BodyLines == { <<"x">>, <<" ", "E">>, <<"E", " ">> }

RECURSIVE BodiesOf(_)
BodiesOf(n) ==
    IF n = 0 THEN { <<>> }
    ELSE BodiesOf(n - 1)
         \cup { <<l>> \o b : l \in BodyLines, b \in BodiesOf(n - 1) }

Indentations ==
    { <<>>, Spaces(1), <<"\t">>, <<"\t", " ">>, Spaces(SimpleIndentLimit),
      Spaces(SimpleIndentLimit + 1) }

EarlierHeredocs ==
    { <<>>, <<"x", " ", "<", "<", "F", "\n", "x", "\n", "F", "\n">> }

\* every line followed by a newline
RECURSIVE Unlines(_)
Unlines(lines) ==
    IF lines = <<>> THEN <<>>
    ELSE Head(lines) \o NL \o Unlines(Tail(lines))

HeredocCommand(h) ==
    h.earlier \o h.head \o NL \o Unlines(h.body) \o h.indent \o HeredocToken
    \o (IF h.newline THEN NL ELSE <<>>)

\* s.split('\n'), the line that starts at position i being cur so far
RECURSIVE SplitFrom(_, _, _)
SplitFrom(s, i, cur) ==
    IF i > Len(s) THEN << cur >>
    ELSE IF s[i] = "\n" THEN << cur >> \o SplitFrom(s, i + 1, <<>>)
    ELSE SplitFrom(s, i + 1, Append(cur, s[i]))

SplitLines(s) == SplitFrom(s, 1, <<>>)

\* '\n'.join(lines)
RECURSIVE JoinLines(_)
JoinLines(lines) ==
    IF lines = <<>> THEN <<>>
    ELSE IF Len(lines) = 1 THEN lines[1]
    ELSE Head(lines) \o NL \o JoinLines(Tail(lines))

\* line.lstrip(), line.strip()
TextLStrip(s) == SubSeq(s, SpaceRunEnd(s, 1), Len(s))

RECURSIVE TextRStrip(_)
TextRStrip(s) ==
    IF s # <<>> /\ s[Len(s)] \in SpaceChars
    THEN TextRStrip(SubSeq(s, 1, Len(s) - 1)) ELSE s

TextStrip(s) == TextRStrip(TextLStrip(s))

\* command.endswith('\n')
EndsWithNewline(s) == s # <<>> /\ s[Len(s)] = "\n"

\* the position after the run of \w that starts at i
RECURSIVE WordRunEnd(_, _)
WordRunEnd(s, i) == IF IsWord(s, i) THEN WordRunEnd(s, i + 1) ELSE i

\* self.heredoc_patterns: << or <<-, then \s*(["\']?)(\w+)\1
heredoc_patterns == << <<"<", "<">>, <<"<", "<", "-">> >>

\* One pattern tried at position i: whether it matches, where the match ends,
\* and the marker_info of the match.
HeredocMatch(s, i, opener) ==
    LET b == SpaceRunEnd(s, i + Len(opener))
        q == b <= Len(s) /\ s[b] \in QuoteChars
        w == IF q THEN b + 1 ELSE b
        e == WordRunEnd(s, w)
    IN [ok |-> /\ StartsWithAt(s, i, opener)
               /\ e > w
               /\ q => (e <= Len(s) /\ s[e] = s[b]),
        end |-> IF q THEN e + 1 ELSE e,
        info |-> [marker |-> SubSeq(s, w, e - 1), quoted |-> q,
                  pattern_type |-> IF Len(opener) = 3 THEN "indented"
                                   ELSE "standard"]]

\* re.finditer(pattern, command) from position i on
RECURSIVE FindIter(_, _, _)
FindIter(s, i, opener) ==
    IF i > Len(s) THEN <<>>
    ELSE LET m == HeredocMatch(s, i, opener)
         IN IF m.ok THEN << m.info >> \o FindIter(s, m.end, opener)
            ELSE FindIter(s, i + 1, opener)

\* result["markers"]: the matches of the first pattern, then of the second
Markers(command) ==
    FindIter(command, 1, heredoc_patterns[1])
    \o FindIter(command, 1, heredoc_patterns[2])

\* the first line whose strip() is the marker and that passes test; 0 if none
FirstMarkerLine(lines, marker, indentedOnly) ==
    LET hits == { i \in 1..Len(lines) :
                    /\ TextStrip(lines[i]) = marker
                    /\ indentedOnly => lines[i] # TextLStrip(lines[i]) }
    IN IF hits = {} THEN 0 ELSE CHOOSE i \in hits : \A j \in hits : i <= j

_check_heredoc_newline(command, marker) ==
    LET lines == SplitLines(command)
        i == FirstMarkerLine(lines, marker, FALSE)
    IN IF i = 0 THEN TRUE
       ELSE IF i < Len(lines) THEN TRUE
       ELSE EndsWithNewline(command)

\* leading_whitespace.isspace()
IsSpaceText(s) == s # <<>> /\ \A i \in 1..Len(s) : s[i] \in SpaceChars

\* leading_whitespace.isspace() and len(leading_whitespace) <= 8
SimpleFix(leading_whitespace) ==
    IsSpaceText(leading_whitespace)
    /\ Len(leading_whitespace) <= SimpleIndentLimit

_check_marker_indentation_detailed(command, marker) ==
    LET lines == SplitLines(command)
        i == FirstMarkerLine(lines, marker, TRUE)
    IN IF i = 0 THEN [is_indented |-> FALSE, simple_fix |-> FALSE]
       ELSE [is_indented |-> TRUE,
             simple_fix |->
                 SimpleFix(SubSeq(lines[i], 1,
                                  Len(lines[i]) - Len(TextLStrip(lines[i]))))]

\* self.auto_fix_settings as __init__ sets it
auto_fix_settings == [missing_newline |-> TRUE, simple_indentation |-> TRUE]

Issue(type, marker, auto_fixable, fix_action, simple_fix) ==
    [type |-> type, marker |-> marker, auto_fixable |-> auto_fixable,
     fix_action |-> fix_action, simple_fix |-> simple_fix]

_detect_marker_issues(command, marker) ==
    LET ind == _check_marker_indentation_detailed(command, marker)
    IN (IF ~_check_heredoc_newline(command, marker)
        THEN << Issue("missing_newline", marker, TRUE,
                      IF auto_fix_settings.missing_newline
                      THEN "AUTO_APPLIED" ELSE "SUGGESTION_ONLY", FALSE) >>
        ELSE <<>>)
       \o (IF ind.is_indented
           THEN << Issue("indented_marker", marker, ind.simple_fix,
                         IF ind.simple_fix /\ auto_fix_settings.simple_indentation
                         THEN "AUTO_APPLIED" ELSE "SUGGESTION_ONLY",
                         ind.simple_fix) >>
           ELSE <<>>)

\* re.search(r'\bsudo\b', command)
SudoWordIn(command) ==
    \E i \in 1..Len(command) :
        /\ WordBoundary(command, i)
        /\ StartsWithAt(command, i, SudoText)
        /\ WordBoundary(command, i + Len(SudoText))

_detect_general_issues(markers, command) ==
    (IF Len(markers) > 1
     THEN << Issue("multiple_heredocs", NoText, FALSE, "MANUAL_REQUIRED", FALSE) >>
     ELSE <<>>)
    \o (IF SudoWordIn(command)
        THEN << Issue("sudo_heredoc_combination", NoText, FALSE,
                      "NO_FIX_NEEDED", FALSE) >>
        ELSE <<>>)

\* the issues of every marker, in the order of the markers
RECURSIVE MarkerIssues(_, _)
MarkerIssues(command, markers) ==
    IF markers = <<>> THEN <<>>
    ELSE _detect_marker_issues(command, Head(markers).marker)
         \o MarkerIssues(command, Tail(markers))

\* result["issues"] after _detect_heredoc_issues
_detect_heredoc_issues(command) ==
    LET markers == Markers(command)
    IN IF markers = <<>> THEN <<>>
       ELSE MarkerIssues(command, markers)
            \o _detect_general_issues(markers, command)

Fix(type, marker) == [type |-> type, marker |-> marker]

\* the indented_marker fix recorded, the line left as it is
UnindentMarker_LineKept(acc, marker) ==
    LET lines == SplitLines(acc.fixed_command)
        i == FirstMarkerLine(lines, marker, TRUE)
    IN IF i = 0 THEN acc
       ELSE [acc EXCEPT
               !.fixes_applied = Append(@, Fix("indented_marker", marker))]

\* the indented_marker fix: the first indented line whose strip() is the
\* marker becomes the marker
UnindentMarker(acc, marker) ==
    LET lines == SplitLines(acc.fixed_command)
        i == FirstMarkerLine(lines, marker, TRUE)
    IN IF i = 0 THEN acc
       ELSE [acc EXCEPT
               !.fixed_command = JoinLines([lines EXCEPT ![i] = marker]),
               !.fixes_applied = Append(@, Fix("indented_marker", marker))]

\* the body of the loop of _apply_automatic_fixes for one issue
ApplyIssue(acc, issue) ==
    IF issue.auto_fixable /\ issue.fix_action = "AUTO_APPLIED"
    THEN IF issue.type = "missing_newline"
           THEN IF ~EndsWithNewline(acc.fixed_command)
                THEN [acc EXCEPT
                        !.fixed_command = @ \o NL,
                        !.fixes_applied =
                            Append(@, Fix("missing_newline", issue.marker))]
                ELSE acc
         ELSE IF issue.type = "indented_marker" /\ issue.simple_fix
           THEN UnindentMarker(acc, issue.marker)
         ELSE acc
    ELSE IF issue.fix_action \in {"SUGGESTION_ONLY", "MANUAL_REQUIRED"}
    THEN [acc EXCEPT !.suggested_fixes = Append(@, Fix(issue.type, issue.marker))]
    ELSE acc

RECURSIVE _apply_automatic_fixes(_, _)
_apply_automatic_fixes(acc, issues) ==
    IF issues = <<>> THEN acc
    ELSE _apply_automatic_fixes(ApplyIssue(acc, Head(issues)), Tail(issues))

detect_and_fix_heredoc_command(command, enable_auto_fix) ==
    LET markers == Markers(command)
        issues == _detect_heredoc_issues(command)
        unfixed == [fixed_command |-> command, fixes_applied |-> <<>>,
                    suggested_fixes |-> <<>>]
        fixed == IF markers # <<>> /\ enable_auto_fix
                 THEN _apply_automatic_fixes(unfixed, issues)
                 ELSE unfixed
    IN [is_heredoc |-> markers # <<>>, markers |-> markers, issues |-> issues,
        fixes_applied |-> fixed.fixes_applied,
        suggested_fixes |-> fixed.suggested_fixes,
        fixed_command |-> fixed.fixed_command,
        auto_fix_enabled |-> enable_auto_fix]

\* In HeredocSpec, call is the command about to be analysed (h is how it was
\* put together), ret is the result of the analysis.
HeredocInit ==
    /\ is_connected = FALSE
    /\ shell_channel = 0
    /\ ssh_client = 0
    /\ session_recovery = TRUE
    /\ lockOwner = 0
    /\ pending = <<>>
    /\ chanBuf = <<>>
    /\ nextMarker = 0
    /\ nextConn = 0
    /\ pc = "new"
    /\ \E head \in HeredocHeads, body \in BodiesOf(MaxBodyLines),
          indent \in Indentations, newline \in BOOLEAN,
          earlier \in EarlierHeredocs :
          LET h == [head |-> head, body |-> body, indent |-> indent,
                    newline |-> newline, earlier |-> earlier]
          IN call = [h |-> h, command |-> HeredocCommand(h)]
    /\ ret = <<>>

\* detect_and_fix_heredoc_command(command, enable_auto_fix) is called
DetectAndFix ==
    /\ pc = "new"
    /\ \E enable_auto_fix \in BOOLEAN :
          ret' = detect_and_fix_heredoc_command(call.command, enable_auto_fix)
    /\ pc' = "analysed"
    /\ UNCHANGED << session, session_recovery, lockOwner, transport, nextMarker,
                    nextConn, call >>

\* detect_and_fix_heredoc_command is called again, with the same setting, on
\* the fixed_command it returned; ret keeps both results
DetectAndFixAgain ==
    /\ pc = "analysed"
    /\ ret' = [first |-> ret,
               again |-> detect_and_fix_heredoc_command(ret.fixed_command,
                                                        ret.auto_fix_enabled)]
    /\ pc' = "analysed again"
    /\ UNCHANGED << session, session_recovery, lockOwner, transport, nextMarker,
                    nextConn, call >>

HeredocNext == DetectAndFix \/ DetectAndFixAgain

HeredocSpec == HeredocInit /\ [][HeredocNext]_vars

\* ------------------------------------------------- claims on the detector
Analysed == pc = "analysed"

\* the types of the entries of a list of fixes or of suggestions
Types(entries) == { entries[k].type : k \in 1..Len(entries) }

\* no body line looks like the terminator
PlainBody(h) == \A k \in 1..Len(h.body) : TextStrip(h.body[k]) # HeredocToken

\* the two kinds of indentation that are not to be fixed
LongIndent(indent) == Len(indent) > SimpleIndentLimit
MixedIndent(indent) == \E i, j \in 1..Len(indent) : indent[i] # indent[j]

\* the command put together again with another indentation of the
\* terminator and with or without the newline after it, all else as it was
SameButTerminator(h, indents) ==
    { HeredocCommand([h EXCEPT !.indent = ind, !.newline = nl]) :
        ind \in indents, nl \in BOOLEAN }

\* C17: the fixer never alters the body of a heredoc: fixed_command is the
\* command with at most the terminator's indentation and the newline after
\* the terminator changed; a body line whose stripped text is the token
\* stays as it is.
C17_BodyUntouched ==
    Analysed => ret.fixed_command \in SameButTerminator(call.h, Indentations)

\* The terminator's indentation was removed and the body is as it was.
C17_Witness ==
    /\ Analysed /\ call.h.body = << <<"x">> >> /\ call.h.indent = <<"\t">>
    /\ ret.fixed_command # call.command
    /\ ret.fixed_command \in SameButTerminator(call.h, { <<>> })

\* C18: a command with one heredoc whose only defect is the missing newline
\* after the terminator comes back, with auto-fix on, as the command
\* followed by one newline, with exactly one fix, of type missing_newline.
C18_MissingNewlineRoundTrip ==
    (/\ Analysed /\ ret.auto_fix_enabled /\ Len(ret.markers) = 1
     /\ call.h.earlier = <<>> /\ call.h.indent = <<>> /\ ~call.h.newline)
        => /\ ret.fixed_command = call.command \o NL
           /\ ret.fixes_applied = << Fix("missing_newline", HeredocToken) >>

\* The scenario x <<E / x / E without the last newline.
C18_Witness ==
    /\ Analysed /\ ret.auto_fix_enabled
    /\ call.command = <<"x", " ", "<", "<", "E", "\n", "x", "\n", "E">>
    /\ ret.fixed_command = call.command \o NL
    /\ ret.fixes_applied = << Fix("missing_newline", HeredocToken) >>

\* C19: with auto-fix on and a plain body, an indented terminator is
\* auto-fixed only when its indentation is at most 8 characters of one kind
\* of whitespace; one indented by more than 8 characters, or by a mix of
\* kinds, stays as it is in fixed_command and is reported in suggested_fixes.
C19_IndentedTerminator ==
    (/\ Analysed /\ ret.auto_fix_enabled /\ ret.is_heredoc
     /\ PlainBody(call.h) /\ call.h.indent # <<>>
     /\ LongIndent(call.h.indent) \/ MixedIndent(call.h.indent))
        => /\ ret.fixed_command \in SameButTerminator(call.h, { call.h.indent })
           /\ "indented_marker" \notin Types(ret.fixes_applied)
           /\ "indented_marker" \in Types(ret.suggested_fixes)

\* Nine spaces before the terminator: not changed, a suggestion made.
C19_Witness ==
    /\ Analysed /\ ret.auto_fix_enabled /\ PlainBody(call.h)
    /\ LongIndent(call.h.indent)
    /\ ret.fixed_command \in SameButTerminator(call.h, { call.h.indent })
    /\ "indented_marker" \in Types(ret.suggested_fixes)

\* C20: with auto-fix on, each finding that is not auto-fixable (several
\* heredocs, a terminator indented by more than 8 characters, sudo together
\* with a heredoc) is an entry of suggested_fixes, and a command with no
\* other finding comes back unchanged.
C20_SuggestionsOnly ==
    (Analysed /\ ret.auto_fix_enabled /\ ret.is_heredoc /\ PlainBody(call.h))
        => /\ call.h.earlier # <<>>
                 => "multiple_heredocs" \in Types(ret.suggested_fixes)
           /\ LongIndent(call.h.indent)
                 => "indented_marker" \in Types(ret.suggested_fixes)
           /\ SudoWordIn(call.h.head)
                 => "sudo_heredoc_combination" \in Types(ret.suggested_fixes)
           /\ (call.h.newline
               /\ (call.h.indent = <<>> \/ LongIndent(call.h.indent)))
                 => ret.fixed_command = call.command

\* Two heredocs in one command: a suggestion, the command unchanged.
C20_Witness ==
    /\ Analysed /\ ret.auto_fix_enabled /\ PlainBody(call.h)
    /\ call.h.earlier # <<>> /\ call.h.newline /\ call.h.indent = <<>>
    /\ "multiple_heredocs" \in Types(ret.suggested_fixes)
    /\ ret.fixed_command = call.command

\* ======================================================= execute_commands
\* In BatchSpec, call is one execute_commands call: its arguments, the
\* loop's locals (results, current_dir) and the commands still to run; pc
\* is "loop" inside the for loop and "returned" after it; ret is the list
\* returned.  What execute_command answers for one command is its
\* CommandStatus, whichever the session and the transport make it.
MaxBatch == 3

CdText == <<"c", "d", " ">>
Slash == <<"/">>

\* cd /a,   cd b,   ` cd  /a `,   x
BatchCommands ==
    { CdText \o <<"/", "a">>,
      CdText \o <<"b">>,
      <<" ">> \o CdText \o <<" ", "/", "a", " ">>,
      <<"x">> }

\* working_directory: None, the empty text, /w
BatchDirs == { NoText, <<>>, <<"/", "w">> }

CommandStatuses == { "success", "error", "timeout", "recovered" }

RECURSIVE CommandLists(_)
CommandLists(n) ==
    IF n = 0 THEN { <<>> }
    ELSE CommandLists(n - 1)
         \cup { <<c>> \o l : c \in BatchCommands, l \in CommandLists(n - 1) }

\* result.status in [CommandStatus.SUCCESS, CommandStatus.RECOVERED]
SuccessOrRecovered(status) == status \in { "success", "recovered" }

\* mutant: only ERROR stops the sequence
StopsAfter_OnlyError(stop_on_error, status) == stop_on_error /\ status = "error"

\* if stop_on_error and result.status not in [SUCCESS, RECOVERED]: break
StopsAfter(stop_on_error, status) == stop_on_error /\ ~SuccessOrRecovered(status)

\* command.strip().startswith('cd ')
IsCdCommand(command) == StartsWithAt(TextStrip(command), 1, CdText)

\* new_dir = command.strip()[3:].strip()
NewDir(command) ==
    TextStrip(SubSeq(TextStrip(command), Len(CdText) + 1, Len(TextStrip(command))))

\* current_dir after a cd command that succeeded
ChangedDir(current_dir, new_dir) ==
    IF StartsWithAt(new_dir, 1, Slash) THEN new_dir
    ELSE IF Truthy(current_dir) THEN current_dir \o Slash \o new_dir
    ELSE new_dir

\* mutant: the directory follows a cd whatever its result
NextDir_AnyStatus(current_dir, command, status) ==
    IF IsCdCommand(command)
    THEN ChangedDir(current_dir, NewDir(command))
    ELSE current_dir

\* current_dir after one command of the loop
NextDir(current_dir, command, status) ==
    IF IsCdCommand(command) /\ SuccessOrRecovered(status)
    THEN ChangedDir(current_dir, NewDir(command))
    ELSE current_dir

\* execute_command: command = f"cd '{working_directory}' && {command}"
WithCdPrefix(working_directory, command) ==
    IF Truthy(working_directory)
    THEN CdText \o <<"'">> \o working_directory \o <<"'", " ", "&", "&", " ">>
         \o command
    ELSE command

BatchInit ==
    /\ is_connected = FALSE
    /\ shell_channel = 0
    /\ ssh_client = 0
    /\ session_recovery = TRUE
    /\ lockOwner = 0
    /\ pending = <<>>
    /\ chanBuf = <<>>
    /\ nextMarker = 0
    /\ nextConn = 0
    /\ pc = "loop"
    /\ \E commands \in CommandLists(MaxBatch), stop_on_error \in BOOLEAN,
          working_directory \in BatchDirs :
          call = [commands |-> commands, stop_on_error |-> stop_on_error,
                  working_directory |-> working_directory,
                  todo |-> commands, current_dir |-> working_directory,
                  results |-> <<>>]
    /\ ret = <<>>

BatchFrame ==
    UNCHANGED << session, session_recovery, lockOwner, transport, nextMarker,
                 nextConn >>

\* one round of `for command in commands`: execute_command is called with
\* working_directory=current_dir and its result appended; then the break, or
\* the update of current_dir
ExecuteNext ==
    /\ pc = "loop"
    /\ call.todo # <<>>
    /\ \E status \in CommandStatuses :
          LET command == Head(call.todo)
              result == [command |-> command, status |-> status,
                         working_directory |-> call.current_dir,
                         full |-> WithCdPrefix(call.current_dir, command)]
              results == Append(call.results, result)
          IN IF StopsAfter(call.stop_on_error, status)
             THEN /\ call' = [call EXCEPT !.results = results, !.todo = Tail(@)]
                  /\ pc' = "returned"
                  /\ ret' = results
             ELSE /\ call' = [call EXCEPT
                                !.results = results, !.todo = Tail(@),
                                !.current_dir = NextDir(@, command, status)]
                  /\ pc' = "loop"
                  /\ ret' = <<>>
    /\ BatchFrame

\* the list is exhausted: return results
ReturnResults ==
    /\ pc = "loop"
    /\ call.todo = <<>>
    /\ pc' = "returned"
    /\ ret' = call.results
    /\ UNCHANGED call
    /\ BatchFrame

BatchNext ==
    \/ ExecuteNext
    \/ ReturnResults

BatchSpec == BatchInit /\ [][BatchNext]_vars

\* --------------------------------------------- claims on execute_commands
\* the results are those of the first Len(results) commands, in list order
PrefixOf(results, commands) ==
    /\ Len(results) <= Len(commands)
    /\ \A i \in 1..Len(results) : results[i].command = commands[i]

\* C21: execute_commands returns results for a prefix of the list, in list
\* order.  With stop_on_error the first result that is neither SUCCESS nor
\* RECOVERED is the last one, and the list is complete when there is none;
\* without it the list is always complete.  No command is run beyond the
\* results returned.
C21_SequencePrefix ==
    /\ PrefixOf(call.results, call.commands)
    /\ pc = "returned" =>
          /\ ret = call.results
          /\ \A i \in 1..(Len(ret) - 1) :
                call.stop_on_error => SuccessOrRecovered(ret[i].status)
          /\ Len(ret) < Len(call.commands) =>
                /\ call.stop_on_error
                /\ Len(ret) > 0
                /\ ~SuccessOrRecovered(ret[Len(ret)].status)
          /\ (call.stop_on_error /\ Len(ret) > 0
              /\ ~SuccessOrRecovered(ret[Len(ret)].status)) =>
                Len(call.todo) = Len(call.commands) - Len(ret)

\* A sequence of three stopped by the TIMEOUT of its second command.
C21_Witness ==
    /\ pc = "returned" /\ call.stop_on_error
    /\ Len(call.commands) = 3 /\ Len(ret) = 2
    /\ ret[1].status = "recovered" /\ ret[2].status = "timeout"

\* the directory tracked after the first k results, as the rule states it
RECURSIVE TrackedDir(_)
TrackedDir(k) ==
    IF k = 0 THEN call.working_directory
    ELSE LET before == TrackedDir(k - 1)
             c == TextStrip(call.commands[k])
             D == TextStrip(SubSeq(c, 4, Len(c)))
         IN IF Len(c) > 3 /\ SubSeq(c, 1, 3) = CdText
               /\ call.results[k].status \in { "success", "recovered" }
            THEN IF Head(D) = "/" THEN D
                 ELSE IF before \in { NoText, <<>> } THEN D
                 ELSE before \o <<"/">> \o D
            ELSE before

\* C22: every command runs with the directory tracked so far as its cd
\* prefix (no prefix while none is set), where the tracked directory
\* changes only by a `cd D` that returned SUCCESS or RECOVERED: to D when D
\* is absolute, to <current>/D (D when none is set) when D is relative.
C22_TrackedDirectory ==
    /\ \A k \in 1..Len(call.results) :
          /\ call.results[k].working_directory = TrackedDir(k - 1)
          /\ call.results[k].full =
                IF TrackedDir(k - 1) \in { NoText, <<>> }
                THEN call.commands[k]
                ELSE <<"c", "d", " ", "'">> \o TrackedDir(k - 1)
                     \o <<"'", " ", "&", "&", " ">> \o call.commands[k]
    /\ pc = "loop" => call.current_dir = TrackedDir(Len(call.results))

\* cd /a succeeded, a failed cd b changed nothing, and x ran in /a.
C22_Witness ==
    /\ Len(call.results) = 3
    /\ call.commands[1] = CdText \o <<"/", "a">>
    /\ call.commands[2] = CdText \o <<"b">>
    /\ call.results[1].status = "success"
    /\ call.results[2].status = "timeout"
    /\ call.results[3].working_directory = <<"/", "a">>

\* ================================================ the session's lifecycle
\* In SessionSpec the session is followed through connect, disconnect,
\* force_reconnect and the execute_command that ends in a forced reconnect,
\* together with what the three fields cannot tell: which client
\* connections and shell channels, of those the session opened, are still
\* open.  Client k and the shell channel opened on it share the number k.
\* A session state is a record
\*   [conn, ch, cl]      is_connected, shell_channel, ssh_client
\*   openCl, openCh      the open client connections and channels (history)
\*   closeFailed         some close() has raised (history)
\* call holds the constructor's credentials and the history, pc is
\* "session", ret names the operation that just returned.
SessionState(conn, ch, cl, h) ==
    [conn |-> conn, ch |-> ch, cl |-> cl,
     openCl |-> h.openCl, openCh |-> h.openCh, closeFailed |-> h.closeFailed]

\* if self.shell_channel: self.shell_channel.close(); self.shell_channel =
\* None.  The close returns, or raises, which only the close of an open
\* channel does; a close that raised has closed the channel or has not.
CloseChannel(s) ==
    IF s.ch = 0 THEN { [st |-> s, raised |-> FALSE] }
    ELSE { [st |-> [s EXCEPT !.ch = 0, !.openCh = @ \ {s.ch}], raised |-> FALSE] }
         \cup { [st |-> [s EXCEPT !.openCh = @ \ gone, !.closeFailed = TRUE],
                 raised |-> TRUE] :
                gone \in IF s.ch \in s.openCh THEN { {}, {s.ch} } ELSE {} }

\* if self.ssh_client: self.ssh_client.close(); self.ssh_client = None.
\* Closing a client closes its channel with it.
CloseClient(s) ==
    IF s.cl = 0 THEN { [st |-> s, raised |-> FALSE] }
    ELSE { [st |-> [s EXCEPT !.cl = 0, !.openCl = @ \ {s.cl},
                             !.openCh = @ \ {s.cl}],
            raised |-> FALSE] }
         \cup { [st |-> [s EXCEPT !.openCl = @ \ gone, !.openCh = @ \ gone,
                                  !.closeFailed = TRUE],
                 raised |-> TRUE] :
                gone \in IF s.cl \in s.openCl THEN { {}, {s.cl} } ELSE {} }

\* disconnect(): the session states it can leave.  The except branch only
\* logs: what follows the close() that raised is not done.
disconnect(s) ==
    UNION { IF a.raised THEN { a.st }
            ELSE { IF b.raised THEN b.st ELSE [b.st EXCEPT !.conn = FALSE] :
                   b \in CloseClient(a.st) } :
            a \in CloseChannel(s) }

\* connect() with k the client it creates, as [st, ok]: self.ssh_client is
\* the new client from the first line on;
\*   without a key path or a password ValueError is raised;
\*   ssh_client.connect raises with the connection not made, or made;
\*   invoke_shell raises, with the connection made;
\*   or the shell channel is opened and is_connected set.
\* Every raise runs the except branch: disconnect(), return False.
connect(s, k, credential) ==
    LET created == [s EXCEPT !.cl = k]
        connected == [created EXCEPT !.openCl = @ \cup {k}]
        shell == [connected EXCEPT !.ch = k, !.openCh = @ \cup {k}, !.conn = TRUE]
        failing == IF credential THEN { created, connected } ELSE { created }
    IN { [st |-> d, ok |-> FALSE] : d \in UNION { disconnect(f) : f \in failing } }
       \cup (IF credential THEN { [st |-> shell, ok |-> TRUE] } ELSE {})

\* force_reconnect(): disconnect(), a pause, return self.connect()
force_reconnect(s, k, credential) ==
    UNION { connect(d, k, credential) : d \in disconnect(s) }

\* execute_command whose recovery failed: force_reconnect(), and
\* self.is_connected = False when it returned False
AfterFailedRecovery(s, k, credential) ==
    { IF r.ok THEN r ELSE [r EXCEPT !.st.conn = FALSE] :
      r \in force_reconnect(s, k, credential) }

NoHistory == [openCl |-> {}, openCh |-> {}, closeFailed |-> FALSE]

Current == SessionState(is_connected, shell_channel, ssh_client, call)

NoOperation == [op |-> "none", ok |-> FALSE, before |-> SessionState(FALSE, 0, 0, NoHistory)]

SessionInit ==
    /\ is_connected = FALSE
    /\ shell_channel = 0
    /\ ssh_client = 0
    /\ session_recovery = TRUE
    /\ lockOwner = 0
    /\ pending = <<>>
    /\ chanBuf = <<>>
    /\ nextMarker = 0
    /\ nextConn = 0
    /\ pc = "session"
    /\ \E credential \in BOOLEAN :
          call = [credential |-> credential, openCl |-> {}, openCh |-> {},
                  closeFailed |-> FALSE]
    /\ ret = NoOperation

\* the operation op returned ok and left the session in state s
Leaves(op, s, ok) ==
    /\ is_connected' = s.conn
    /\ shell_channel' = s.ch
    /\ ssh_client' = s.cl
    /\ call' = [call EXCEPT !.openCl = s.openCl, !.openCh = s.openCh,
                            !.closeFailed = s.closeFailed]
    /\ ret' = [op |-> op, ok |-> ok, before |-> Current]
    /\ UNCHANGED << session_recovery, lockOwner, transport, nextMarker, pc >>

DisconnectCall ==
    /\ pc = "session"
    /\ \E d \in disconnect(Current) : Leaves("disconnect", d, TRUE)
    /\ UNCHANGED nextConn

ConnectCall ==
    /\ pc = "session"
    /\ nextConn < MaxConn
    /\ nextConn' = nextConn + 1
    /\ \E r \in connect(Current, nextConn + 1, call.credential) :
          Leaves("connect", r.st, r.ok)

ForceReconnectCall ==
    /\ pc = "session"
    /\ nextConn < MaxConn
    /\ nextConn' = nextConn + 1
    /\ \E r \in force_reconnect(Current, nextConn + 1, call.credential) :
          Leaves("force_reconnect", r.st, r.ok)

\* an execute_command that timed out and whose recovery failed
TimedOutCommand ==
    /\ pc = "session"
    /\ ~NotConnected
    /\ nextConn < MaxConn
    /\ nextConn' = nextConn + 1
    /\ \E r \in AfterFailedRecovery(Current, nextConn + 1, call.credential) :
          Leaves("execute_command", r.st, r.ok)

SessionNext ==
    \/ DisconnectCall
    \/ ConnectCall
    \/ ForceReconnectCall
    \/ TimedOutCommand

SessionSpec == SessionInit /\ [][SessionNext]_vars

\* -------------------------------------------- claims on the lifecycle
\* the session is marked not connected and holds no channel and no client
HoldsNothing == ~is_connected /\ shell_channel = 0 /\ ssh_client = 0

\* C23: after disconnect has returned, from whatever state and whether or
\* not a close() failed, the session is marked not connected and holds
\* neither a channel nor a client, and a disconnect of a session already in
\* that state changes nothing.
C23_DisconnectIdempotent ==
    ret.op = "disconnect" =>
        /\ HoldsNothing
        /\ (~ret.before.conn /\ ret.before.ch = 0 /\ ret.before.cl = 0)
              => Current = ret.before

\* A disconnect of a connected session whose closes succeeded.
C23_Witness ==
    /\ ret.op = "disconnect" /\ ret.before.conn /\ ret.before.ch # 0
    /\ HoldsNothing /\ call.openCl = {} /\ call.openCh = {}

\* C24: a connect that failed returned False and left the session not
\* connected, holding no channel and no client, with the client connection
\* it made and any channel on it closed.
C24_FailedConnectReleases ==
    (ret.op = "connect" /\ ~ret.ok) =>
        /\ HoldsNothing
        /\ nextConn \notin call.openCl
        /\ nextConn \notin call.openCh

\* A connect that failed after its connection was made, and released it.
C24_Witness ==
    /\ ret.op = "connect" /\ ~ret.ok /\ call.credential
    /\ HoldsNothing /\ call.openCl = {} /\ ~call.closeFailed

\* C25: as long as no close() has failed, the only client connection and
\* the only shell channel open are the ones the session holds.
C25_OneTransport ==
    ~call.closeFailed =>
        /\ call.openCl \subseteq {ssh_client}
        /\ call.openCh \subseteq {shell_channel}
        /\ Cardinality(call.openCl) <= 1
        /\ Cardinality(call.openCh) <= 1

\* A forced reconnect replaced the transport and closed the old one.
C25_Witness ==
    /\ ret.op = "force_reconnect" /\ ret.ok /\ ret.before.conn
    /\ call.openCl = {ssh_client} /\ call.openCh = {shell_channel}

\* ======================================================= the server tools
\* In ToolSpec, call is the server (MCPSSHServerProfile): the executor
\* registered under the one connection id, NoExecutor while there is none;
\* pc is "server" while the server waits for a request and "answered" when
\* a tool call has built its response; ret is that tool call: its
\* arguments, what it passed to the executor, what the executor returned,
\* and its response.  A profile's secrets are one-character texts.
MaxBatchTool == 2

ConnectionId == <<"c">>
NoExecutor == [profile |-> NoText]

\* the fields of the CommandResult dataclass
CommandResultFields ==
    { "stdout", "stderr", "exit_code", "status", "execution_time", "command",
      "original_command", "auto_fixed", "session_recovered" }

\* self.heredoc_auto_fix_settings
heredoc_auto_fix_settings == [enabled |-> TRUE, show_diff |-> TRUE, log_fixes |-> TRUE]

\* SSHProfile, as the profile manager returns it
Profile(hostname, password, sudo_password, private_key_path) ==
    [profile_name |-> <<"P">>, hostname |-> hostname, username |-> <<"u">>,
     password |-> password, port |-> 22, sudo_password |-> sudo_password,
     private_key_path |-> private_key_path, description |-> <<"D">>,
     auto_sudo_fix |-> TRUE, session_recovery |-> TRUE, default_timeout |-> 300]

Profiles ==
    { Profile(hostname, password, sudo_password, private_key_path) :
        hostname \in { <<"h">> },
        password \in { NoText, <<"q">> },
        sudo_password \in { NoText, <<"p">> },
        private_key_path \in { NoText, <<"k">> } }

\* another value of a secret (None stays None)
OtherSecret(v) == IF v = NoText THEN v ELSE v \o <<"2">>

\* the profile with other values of its password, sudo password and key path
OtherCredentials(profile) ==
    [profile EXCEPT !.password = OtherSecret(@), !.sudo_password = OtherSecret(@),
                    !.private_key_path = OtherSecret(@)]

\* ... and of its host address
OtherSecrets(profile) == [OtherCredentials(profile) EXCEPT !.hostname = OtherSecret(@)]

\* x <<E with the terminator in place, indented, and without its newline;
\* sudo x <<E; a command without heredoc
ToolCommands ==
    { <<"x">> }
    \cup { HeredocCommand([head |-> head, body |-> << <<"x">> >>, indent |-> indent,
                           newline |-> newline, earlier |-> <<>>]) :
           head \in { <<"x", " ", "<", "<", "E">>,
                      SudoSpace \o <<"x", " ", "<", "<", "E">> },
           indent \in { <<>>, <<" ">> }, newline \in BOOLEAN }

RECURSIVE ListsOf(_, _)
ListsOf(S, n) ==
    IF n = 0 THEN { <<>> }
    ELSE ListsOf(S, n - 1) \cup { <<x>> \o l : x \in S, l \in ListsOf(S, n - 1) }

\* SSHCommandExecutor(hostname=profile.hostname, ...); executor.profile_name
ExecutorOf(profile) ==
    [hostname |-> profile.hostname, username |-> profile.username,
     port |-> profile.port, password |-> profile.password,
     private_key_path |-> profile.private_key_path,
     sudo_password |-> Or(profile.sudo_password, profile.password),
     auto_sudo_fix |-> profile.auto_sudo_fix,
     session_recovery |-> profile.session_recovery,
     default_command_timeout |-> profile.default_timeout,
     profile_name |-> profile.profile_name]

\* the response of _ssh_connect_profile
ConnectProfileResponse(profile, connection_id, success) ==
    IF success
    THEN [success |-> TRUE,
          message |-> << profile.profile_name, connection_id >>,
          profile_used |-> profile.profile_name,
          connection_info |->
              [connection_id |-> connection_id,
               profile_name |-> profile.profile_name,
               hostname |-> profile.hostname,
               username |-> profile.username,
               port |-> profile.port,
               auto_sudo_fix |-> profile.auto_sudo_fix,
               session_recovery |-> profile.session_recovery,
               sudo_configured |-> Truthy(profile.sudo_password),
               default_timeout |-> profile.default_timeout,
               description |-> profile.description],
          error |-> NoText]
    ELSE [success |-> FALSE,
          message |-> << profile.profile_name >>,
          profile_used |-> profile.profile_name,
          connection_info |-> <<>>,
          error |-> <<"connect">>]

\* get_connection_info() of an executor
get_connection_info(o, is_connected_now, is_alive) ==
    [hostname |-> o.hostname, username |-> o.username, port |-> o.port,
     is_connected |-> is_connected_now, is_alive |-> is_alive,
     auto_sudo_fix |-> o.auto_sudo_fix, session_recovery |-> o.session_recovery,
     sudo_configured |-> Truthy(o.sudo_password)]

\* what execute_command of executor o returns for a command passed to it,
\* the transport deciding status, exit_code and stdout
CommandResultOf(o, command, status, exit_code, stdout) ==
    LET auto_fixed == ExecutePrologue(o, command, None, NoText).auto_fixed
    IN [stdout |-> stdout, stderr |-> <<>>, exit_code |-> exit_code,
        status |-> status, command |-> command,
        original_command |-> IF auto_fixed THEN command ELSE NoText,
        auto_fixed |-> auto_fixed, session_recovered |-> status = "recovered"]

\* the except Exception branch of _ssh_execute and _ssh_execute_batch
ToolErrorResponse(o, error) ==
    [success |-> FALSE, error |-> error, profile_used |-> o.profile_name]

\* the response _ssh_execute builds from the executor's result; reading
\* result.heredoc_detected raises AttributeError when CommandResult has no
\* such field, and the except Exception branch answers
SshExecuteResponse(o, command, final_command, heredoc_result, result) ==
    LET response ==
          [success |-> SuccessOrRecovered(result.status),
           command |-> result.command,
           original_command |-> IF final_command # command THEN command ELSE NoText,
           stdout |-> result.stdout, stderr |-> result.stderr,
           exit_code |-> result.exit_code, status |-> result.status,
           profile_used |-> o.profile_name,
           heredoc_detected |-> heredoc_result.is_heredoc,
           heredoc_auto_fixed |->
               heredoc_result.is_heredoc /\ heredoc_result.fixes_applied # <<>>,
           sudo_auto_fixed |-> result.auto_fixed,
           session_recovered |-> result.session_recovered]
    IN IF "heredoc_detected" \in CommandResultFields
       THEN response
       ELSE ToolErrorResponse(o, <<"AttributeError">>)

\* execute_commands(commands, ...) as the list of its results, the k-th
\* command returning statuses[k]
RECURSIVE execute_commands(_, _, _, _)
execute_commands(o, commands, statuses, stop_on_error) ==
    IF commands = <<>> THEN <<>>
    ELSE LET result == CommandResultOf(o, Head(commands), Head(statuses), None, <<>>)
         IN IF StopsAfter(stop_on_error, Head(statuses))
            THEN << result >>
            ELSE << result >>
                 \o execute_commands(o, Tail(commands), Tail(statuses), stop_on_error)

\* the response of _ssh_execute_batch
SshExecuteBatchResponse(o, commands, results) ==
    [success |-> \A k \in 1..Len(results) : SuccessOrRecovered(results[k].status),
     total_commands |-> Len(commands),
     executed_commands |-> Len(results),
     results |-> [k \in 1..Len(results) |->
                    [command |-> results[k].command, stdout |-> results[k].stdout,
                     stderr |-> results[k].stderr,
                     exit_code |-> results[k].exit_code,
                     status |-> results[k].status]],
     profile_used |-> o.profile_name]

\* if connection_id not in self.ssh_connections
ConnectionNotFound == [success |-> FALSE, error |-> <<"CONNECTION_NOT_FOUND">>]

ToolInit ==
    /\ is_connected = FALSE
    /\ shell_channel = 0
    /\ ssh_client = 0
    /\ session_recovery = TRUE
    /\ lockOwner = 0
    /\ pending = <<>>
    /\ chanBuf = <<>>
    /\ nextMarker = 0
    /\ nextConn = 0
    /\ pc = "server"
    /\ call = NoExecutor
    /\ ret = [tool |-> "none"]

ToolFrame ==
    UNCHANGED << session, session_recovery, lockOwner, transport, nextMarker,
                 nextConn >>

\* ssh_connect_profile; twin is the response the same call gives when the
\* profile holds other secrets
SshConnectProfile ==
    /\ pc = "server"
    /\ \E profile \in Profiles, success \in BOOLEAN :
          /\ call' = IF success
                     THEN [profile |-> profile, executor |-> ExecutorOf(profile)]
                     ELSE call
          /\ ret' = [tool |-> "ssh_connect_profile", profile |-> profile,
                     response |-> ConnectProfileResponse(profile, ConnectionId, success),
                     twin |-> ConnectProfileResponse(OtherSecrets(profile),
                                                     ConnectionId, success)]
    /\ pc' = "answered"
    /\ ToolFrame

\* get_connection_info() of the registered executor, and of the executor
\* the same profile with other credentials makes
GetConnectionInfo ==
    /\ pc = "server"
    /\ call # NoExecutor
    /\ \E connected \in BOOLEAN, alive \in BOOLEAN :
          ret' = [tool |-> "get_connection_info", executor |-> call.executor,
                  response |-> get_connection_info(call.executor, connected, alive),
                  twin |-> get_connection_info(
                               ExecutorOf(OtherCredentials(call.profile)),
                               connected, alive)]
    /\ pc' = "answered"
    /\ UNCHANGED call
    /\ ToolFrame

\* ssh_execute
SshExecute ==
    /\ pc = "server"
    /\ \E command \in ToolCommands, heredoc_auto_fix \in { "None", "True", "False" },
          status \in CommandStatuses, exit_code \in { None, 0, 1 } :
          IF call = NoExecutor
          THEN ret' = [tool |-> "ssh_execute", command |-> command,
                       passed |-> <<>>, results |-> <<>>,
                       response |-> ConnectionNotFound]
          ELSE LET enable_auto_fix ==
                     IF heredoc_auto_fix = "None"
                     THEN heredoc_auto_fix_settings.enabled
                     ELSE heredoc_auto_fix = "True"
                   heredoc_result ==
                     detect_and_fix_heredoc_command(command, enable_auto_fix)
                   final_command == heredoc_result.fixed_command
                   result == CommandResultOf(call.executor, final_command, status,
                                             exit_code, <<"o">>)
               IN ret' = [tool |-> "ssh_execute", command |-> command,
                          enable_auto_fix |-> enable_auto_fix,
                          passed |-> << final_command >>,
                          results |-> << result >>,
                          response |-> SshExecuteResponse(call.executor, command,
                                          final_command, heredoc_result, result)]
    /\ pc' = "answered"
    /\ UNCHANGED call
    /\ ToolFrame

\* ssh_execute_batch
SshExecuteBatch ==
    /\ pc = "server"
    /\ \E commands \in ListsOf(ToolCommands, MaxBatchTool) \ { <<>> },
          stop_on_error \in BOOLEAN :
          \E statuses \in [1..Len(commands) -> CommandStatuses] :
             IF call = NoExecutor
             THEN ret' = [tool |-> "ssh_execute_batch", commands |-> commands,
                          passed |-> <<>>, results |-> <<>>,
                          response |-> ConnectionNotFound]
             ELSE LET results == execute_commands(call.executor, commands, statuses,
                                                  stop_on_error)
                  IN ret' = [tool |-> "ssh_execute_batch", commands |-> commands,
                             passed |-> [k \in 1..Len(results) |-> results[k].command],
                             results |-> results,
                             response |-> SshExecuteBatchResponse(call.executor,
                                                                  commands, results)]
    /\ pc' = "answered"
    /\ UNCHANGED call
    /\ ToolFrame

\* the response is sent; the server waits for the next request
Respond ==
    /\ pc = "answered"
    /\ pc' = "server"
    /\ ret' = [tool |-> "none"]
    /\ UNCHANGED call
    /\ ToolFrame

ToolNext ==
    \/ SshConnectProfile
    \/ GetConnectionInfo
    \/ SshExecute
    \/ SshExecuteBatch
    \/ Respond

ToolSpec == ToolInit /\ [][ToolNext]_vars

\* ------------------------------------------------------ claims on the tools
\* C26: when the session is registered and the executor returned a result,
\* ssh_execute answers success exactly when the status is SUCCESS or
\* RECOVERED, with the executor's status, and on success with the
\* executor's stdout and exit_code.
C26_ExecuteReportsResult ==
    (ret.tool = "ssh_execute" /\ ret.results # <<>>) =>
        LET result == ret.results[1]
        IN /\ ret.response.success = SuccessOrRecovered(result.status)
           /\ "status" \in DOMAIN ret.response
           /\ ret.response.status = result.status
           /\ SuccessOrRecovered(result.status) =>
                 /\ ret.response.stdout = result.stdout
                 /\ ret.response.exit_code = result.exit_code

\* The executor completed a command with SUCCESS and exit code 0.
C26_Witness ==
    /\ ret.tool = "ssh_execute" /\ ret.results # <<>>
    /\ ret.results[1].status = "success" /\ ret.results[1].exit_code = 0

\* the form in which single execution passes a command to the executor
RepairedForm(command) ==
    detect_and_fix_heredoc_command(command, heredoc_auto_fix_settings.enabled).fixed_command

\* C27: a command of a batch is passed to the executor in the form single
\* execution passes it: as the heredoc fixer repaired it.
C27_BatchThroughFixer ==
    ret.tool = "ssh_execute_batch" =>
        \A k \in 1..Len(ret.passed) : ret.passed[k] = RepairedForm(ret.commands[k])

\* Single execution passes the repaired form of a command with a defect.
C27_Witness ==
    /\ ret.tool = "ssh_execute" /\ ret.results # <<>> /\ ret.enable_auto_fix
    /\ ret.passed[1] # ret.command
    /\ ret.passed[1] = RepairedForm(ret.command)

\* the texts a response of ssh_connect_profile carries
ConnectResponseTexts(r) ==
    { r.message[k] : k \in 1..Len(r.message) }
    \cup { r.profile_used, r.error }
    \cup (IF r.success
          THEN { r.connection_info.connection_id, r.connection_info.profile_name,
                 r.connection_info.hostname, r.connection_info.username,
                 r.connection_info.description }
          ELSE {})

\* C28: the response of ssh_connect_profile carries neither the host
\* address nor the password, sudo password or key path of the profile; the
\* connection info of an executor carries no password, sudo password or key
\* path; and the response is the same for a profile that differs only in
\* the values of those secrets.
C28_SecretsHidden ==
    /\ ret.tool = "ssh_connect_profile" =>
          /\ ConnectResponseTexts(ret.response)
                \cap ({ ret.profile.hostname, ret.profile.password,
                        ret.profile.sudo_password, ret.profile.private_key_path }
                      \ { NoText }) = {}
          /\ ret.response = ret.twin
    /\ ret.tool = "get_connection_info" =>
          /\ { ret.response.hostname, ret.response.username }
                \cap ({ ret.executor.password, ret.executor.sudo_password,
                        ret.executor.private_key_path } \ { NoText }) = {}
          /\ ret.response = ret.twin

\* The connection info of a connected executor that has a sudo password.
C28_Witness ==
    /\ ret.tool = "get_connection_info"
    /\ ret.response.sudo_configured /\ ret.response.is_connected
    /\ ret.response = ret.twin

\* ===================================================================
\* The receive loop of execute_command over the characters of the stream:
\* recv(4096) returns any non-empty prefix of what the shell has still to
\* write, the chunk is split at newlines, each line is stripped and decoded.
\* One call on one session; pending is the text still to arrive, call has
\* the fields of IdleCall with the loop's locals over texts in dec.
\* ===================================================================

\* start_marker and end_marker (marker_base, _START_ or _END_, the uuid) and
\* the literal 'EXIT_CODE:', as short texts
start_marker == << "M", "S" >>
end_marker == << "M", "E" >>
ExitCodePrefix == << "X", ":" >>

DecimalDigits == << "0", "1", "2", "3", "4", "5", "6", "7", "8", "9" >>

\* str(n) for a one-digit n
DigitText(n) == << DecimalDigits[n + 1] >>

\* What the command may print between the markers: nothing, a line, a line
\* that starts with EXIT_CODE: and holds an integer or not, with and without
\* a line after it.
PrintedOutputs ==
    { <<>>,
      << <<"a">> >>,
      << ExitCodePrefix \o <<"1">> >>,
      << ExitCodePrefix \o <<"1">>, <<"a">> >>,
      << ExitCodePrefix \o <<"a">>, <<"a">> >> }

\* full_command as the remote shell answers it, character by character
ShellStream(out, code) ==
    start_marker \o NL \o Unlines(out) \o end_marker \o NL
    \o ExitCodePrefix \o DigitText(code) \o NL

\* the value of a text of decimal digits
RECURSIVE DecimalValue(_)
DecimalValue(s) ==
    IF s = <<>> THEN 0
    ELSE 10 * DecimalValue(SubSeq(s, 1, Len(s) - 1))
         + (CHOOSE v \in 0..9 : DecimalDigits[v + 1] = s[Len(s)])

\* int(text): None when it raises ValueError
IntOf(text) ==
    LET t == TextStrip(text)
    IN IF t # <<>> /\ \A i \in 1..Len(t) : \E v \in 1..10 : DecimalDigits[v] = t[i]
       THEN DecimalValue(t) ELSE None

\* int(line.split(':', 1)[1]) of a line that starts with 'EXIT_CODE:'
ExitCodeOf(line) == IntOf(SubSeq(line, Len(ExitCodePrefix) + 1, Len(line)))

\* The locals of the receive loop and their history: parsed, an EXIT_CODE
\* line gave an integer; failedAfterEnd, an EXIT_CODE line seen after the
\* end marker gave none; exitBeforeEnd, an EXIT_CODE line was interpreted
\* before the end marker was seen; split, a chunk ended inside a line;
\* received, the number of characters received.
NoTextDecode ==
    [started |-> FALSE, ended |-> FALSE, exit_code |-> None, stdout |-> <<>>,
     parsed |-> FALSE, failedAfterEnd |-> FALSE, exitBeforeEnd |-> FALSE,
     split |-> FALSE, received |-> 0]

\* elif line.startswith('EXIT_CODE:'): try: exit_code = int(...) except: pass
ExitCodeText(d, line) ==
    LET v == ExitCodeOf(line)
    IN [d EXCEPT !.exit_code = IF v = None THEN @ ELSE v,
                 !.parsed = @ \/ v # None,
                 !.failedAfterEnd = @ \/ (d.ended /\ v = None),
                 !.exitBeforeEnd = @ \/ ~d.ended]

\* for line in lines: ... of one chunk
RECURSIVE DecodeText(_, _)
DecodeText(lines, d) ==
    IF lines = <<>> THEN d
    ELSE LET line == TextStrip(Head(lines))
         IN IF InText(start_marker, line)
            THEN DecodeText(Tail(lines), [d EXCEPT !.started = TRUE])
            ELSE IF InText(end_marker, line)
            THEN DecodeText(Tail(lines), [d EXCEPT !.ended = TRUE])
            ELSE IF StartsWithAt(line, 1, ExitCodePrefix)
            THEN ExitCodeText(d, line)
            ELSE DecodeText(Tail(lines),
                     IF d.started /\ ~d.ended /\ line # <<>>
                     THEN [d EXCEPT !.stdout = Append(@, line)]
                     ELSE d)

\* lines = output.split('\n') of a chunk, decoded
DecodeChunk(chunk, d) ==
    DecodeText(SplitLines(chunk),
               [d EXCEPT !.split = @ \/ chunk[Len(chunk)] # "\n",
                         !.received = @ + Len(chunk)])

DecodeInit ==
    /\ \E connected \in BOOLEAN :
          /\ is_connected = connected
          /\ shell_channel = (IF connected THEN 1 ELSE 0)
          /\ ssh_client = (IF connected THEN 1 ELSE 0)
          /\ nextConn = (IF connected THEN 1 ELSE 0)
    /\ session_recovery = TRUE
    /\ lockOwner = 0
    /\ pending = <<>>
    /\ chanBuf = <<>>
    /\ nextMarker = 1
    /\ pc = "lock"
    /\ \E out \in PrintedOutputs, code \in Codes :
          call = [IdleCall EXCEPT !.marker = 1, !.timeout = 1,
                                  !.dec = NoTextDecode,
                                  !.truthOut = out, !.truthCode = code,
                                  !.sessAtStart = session]
    /\ ret = NoRet

DecodeFrame == UNCHANGED << session_recovery, lockOwner, chanBuf, nextMarker >>

\* the return of the call
DecodeReturned(c, sess) ==
    /\ ret' = [c EXCEPT !.sessAtEnd = sess]
    /\ pc' = "returned"
    /\ UNCHANGED call

\* if not self.is_connected or not self.shell_channel: return
DecodeNotConnected ==
    /\ pc = "lock"
    /\ NotConnected
    /\ DecodeReturned(NotConnectedResult(call), session)
    /\ UNCHANGED << session, pending, nextConn >>
    /\ DecodeFrame

\* self.shell_channel.send(full_command + '\n'): the shell will answer
DecodeSend ==
    /\ pc = "lock"
    /\ ~NotConnected
    /\ pending' = ShellStream(call.truthOut, call.truthCode)
    /\ call' = [call EXCEPT !.sent = TRUE]
    /\ pc' = "recv"
    /\ ret' = NoRet
    /\ UNCHANGED << session, nextConn >>
    /\ DecodeFrame

\* send (or the drain before it) raises: the except Exception branch
DecodeSendRaises ==
    /\ pc = "lock"
    /\ ~NotConnected
    /\ DecodeReturned(ExceptionResult([call EXCEPT !.ioFail = "send"]), session)
    /\ UNCHANGED << session, pending, nextConn >>
    /\ DecodeFrame

\* data = self.shell_channel.recv(4096): a non-empty prefix of the stream
RecvChunk ==
    /\ pc = "recv"
    /\ BeforeDeadline(call)
    /\ \E n \in 1..Len(pending) :
          LET d == DecodeChunk(SubSeq(pending, 1, n), call.dec)
          IN /\ pending' = SubSeq(pending, n + 1, Len(pending))
             /\ call' = [call EXCEPT !.dec = d, !.got = @ + 1,
                                     !.exitedBy = IF LoopDone(d) THEN "done" ELSE @]
             /\ pc' = IF LoopDone(d) THEN "classify" ELSE "recv"
    /\ ret' = NoRet
    /\ UNCHANGED << session, nextConn >>
    /\ DecodeFrame

\* recv raises paramiko's SSHException: break
RecvSSHException ==
    /\ pc = "recv"
    /\ BeforeDeadline(call)
    /\ call' = [call EXCEPT !.exitedBy = "exception", !.ioFail = "recv"]
    /\ pc' = "classify"
    /\ ret' = NoRet
    /\ UNCHANGED << session, pending, nextConn >>
    /\ DecodeFrame

\* time.time() reaches end_time, inside the loop or between the loop and
\* the test of the status
DeadlinePasses ==
    /\ pc \in {"recv", "classify"}
    /\ BeforeDeadline(call)
    /\ call' = [call EXCEPT !.elapsed = call.timeout]
    /\ ret' = NoRet
    /\ UNCHANGED << session, pending, nextConn, pc >>
    /\ DecodeFrame

\* while time.time() < end_time is false
DeadlineExit ==
    /\ pc = "recv"
    /\ ~BeforeDeadline(call)
    /\ call' = [call EXCEPT !.exitedBy = "deadline"]
    /\ pc' = "classify"
    /\ ret' = NoRet
    /\ UNCHANGED << session, pending, nextConn >>
    /\ DecodeFrame

\* status ERROR or SUCCESS: the result is returned
ReturnStatus ==
    /\ pc = "classify"
    /\ Status(call) # "timeout"
    /\ DecodeReturned(LoopResult(call, Status(call), FALSE), session)
    /\ UNCHANGED << session, pending, nextConn >>
    /\ DecodeFrame

\* status TIMEOUT and try_session_recovery() returns True
ReturnRecovered ==
    /\ pc = "classify"
    /\ Status(call) = "timeout"
    /\ DecodeReturned(LoopResult([call EXCEPT !.recovery = TRUE],
                                 "recovered", TRUE), session)
    /\ pending' = <<>>
    /\ UNCHANGED << session, nextConn >>
    /\ DecodeFrame

\* status TIMEOUT, try_session_recovery() returns False, force_reconnect()
ReturnReconnected ==
    /\ pc = "classify"
    /\ Status(call) = "timeout"
    /\ nextConn < MaxConn
    /\ nextConn' = nextConn + 1
    /\ \E o1 \in DisconnectOutcomes(shell_channel, ssh_client, is_connected) :
          \/ /\ SetSession(ConnectOk(nextConn + 1))
             /\ DecodeReturned(
                    LoopResult([call EXCEPT !.recovery = TRUE, !.reconnect = "ok"],
                               "timeout", FALSE),
                    << TRUE, nextConn + 1, nextConn + 1 >>)
          \/ \E o2 \in ConnectFailOutcomes(o1.ch, o1.conn, nextConn + 1) :
                /\ SetSession(MarkDisconnected(o2))
                /\ DecodeReturned(
                       LoopResult([call EXCEPT !.recovery = TRUE,
                                               !.reconnect = "failed"],
                                  "timeout", FALSE),
                       << FALSE, o2.ch, o2.cl >>)
    /\ UNCHANGED << session_recovery, lockOwner, nextMarker >>

DecodeNext ==
    \/ DecodeNotConnected
    \/ DecodeSend
    \/ DecodeSendRaises
    \/ RecvChunk
    \/ RecvSSHException
    \/ DeadlinePasses
    \/ DeadlineExit
    \/ ReturnStatus
    \/ ReturnRecovered
    \/ ReturnReconnected

DecodeSpec == DecodeInit /\ [][DecodeNext]_vars

\* the call returned a result in the step just taken
DecodeReturns == pc = "returned"

\* the command printed a line that starts with EXIT_CODE:
PrintsExitCodeLine(out) ==
    \E i \in 1..Len(out) : StartsWithAt(out[i], 1, ExitCodePrefix)

\* C29: the decoder advances only WAIT_START -> COLLECTING ->
\* WAIT_EXIT_CODE -> DONE.  When every chunk ends at a line end, an
\* EXIT_CODE: line is interpreted only after the end marker was seen, and a
\* call whose decoding reached DONE returns as stdout every line its command
\* printed between the markers, the lines starting with EXIT_CODE: included.
C29_DecoderOrder ==
    (DecodeReturns /\ ret.sent /\ ~ret.dec.split)
        => /\ ~ret.dec.exitBeforeEnd
           /\ ret.exitedBy = "done" => ret.stdout = ret.truthOut

\* A call whose command printed an EXIT_CODE: line received both markers in
\* chunks that end at line ends.
C29_Witness ==
    /\ DecodeReturns /\ ~ret.dec.split
    /\ PrintsExitCodeLine(ret.truthOut)
    /\ ret.dec.started /\ ret.dec.ended

\* C30: exit_code is None in every result for which no EXIT_CODE line was
\* parsed as an integer (not-connected and exception results, results
\* without a marker, results whose EXIT_CODE line did not parse); when the
\* EXIT_CODE line that follows the end marker does not parse, decoding does
\* not reach DONE: unless the transport fails, the call leaves the loop at
\* its deadline, with exit_code None.
C30_ExitCodeUnset ==
    DecodeReturns
        => /\ ~ret.dec.parsed => ret.exit_code = None
           /\ (ret.dec.failedAfterEnd /\ ret.exitedBy # "exception")
                 => (ret.exitedBy = "deadline" /\ ret.exit_code = None)

\* The EXIT_CODE line after the end marker did not parse and the call ran
\* to its deadline.
C30_Witness ==
    /\ DecodeReturns /\ ret.dec.failedAfterEnd
    /\ ret.exitedBy = "deadline" /\ ret.exit_code = None

\* The same holds of the calls in which no EXIT_CODE: line was interpreted
\* before the end marker was seen.
C30_ParseFailureAlone ==
    (DecodeReturns /\ ~ret.dec.exitBeforeEnd)
        => /\ ~ret.dec.parsed => ret.exit_code = None
           /\ (ret.dec.failedAfterEnd /\ ret.exitedBy # "exception")
                 => (ret.exitedBy = "deadline" /\ ret.exit_code = None)

\* ===================================================================
\* Termination of execute_command.  One call on one session, read by read:
\* chanBuf is the number of chunks buffered on the channel, call.flood says
\* that the remote shell keeps writing (an earlier command that is still
\* running), so that every recv finds data.  The channel's timeout is one
\* second: a recv that finds nothing raises socket.timeout.
\* ===================================================================
MaxStale == 2

NoTermDecode == [started |-> FALSE, ended |-> FALSE, exit_code |-> None]

NoTermResult == [status |-> "none", session_recovered |-> FALSE]

TermInit ==
    /\ \E connected \in BOOLEAN :
          /\ is_connected = connected
          /\ shell_channel = (IF connected THEN 1 ELSE 0)
          /\ ssh_client = (IF connected THEN 1 ELSE 0)
          /\ nextConn = (IF connected THEN 1 ELSE 0)
    /\ session_recovery \in BOOLEAN
    /\ lockOwner = 0
    /\ pending = <<>>
    /\ chanBuf \in 0..MaxStale
    /\ nextMarker = 1
    /\ pc = "lock"
    /\ \E timeout \in Timeouts, flood \in BOOLEAN :
          call = [timeout |-> timeout, elapsed |-> 0, probeElapsed |-> 0,
                  round |-> 0, dec |-> NoTermDecode, flood |-> flood]
    /\ ret = NoTermResult

TermFrame == UNCHANGED << session_recovery, lockOwner, pending, nextMarker >>

TermReturned(status, recovered) ==
    /\ ret' = [status |-> status, session_recovered |-> recovered]
    /\ pc' = "returned"

\* if not self.is_connected or not self.shell_channel: return
TermNotConnected ==
    /\ pc = "lock"
    /\ NotConnected
    /\ TermReturned("error", FALSE)
    /\ UNCHANGED << session, chanBuf, nextConn, call >>
    /\ TermFrame

\* the command is fixed, the markers are made: _drain_output() is called
TermBegin ==
    /\ pc = "lock"
    /\ ~NotConnected
    /\ pc' = "drain"
    /\ UNCHANGED << session, chanBuf, nextConn, call, ret >>
    /\ TermFrame

\* _drain_output(): data = recv(4096) returns data, the loop goes round
DrainRead ==
    /\ pc \in {"drain", "rdrain"}
    /\ call.flood \/ chanBuf > 0
    /\ chanBuf' = IF call.flood THEN chanBuf ELSE chanBuf - 1
    /\ UNCHANGED << session, nextConn, pc, call, ret >>
    /\ TermFrame

\* _drain_output(): recv finds nothing within the channel's timeout and
\* raises, or returns nothing: the drain is over
DrainEnd ==
    /\ pc \in {"drain", "rdrain"}
    /\ ~call.flood /\ chanBuf = 0
    /\ pc' = IF pc = "drain" THEN "send" ELSE "probe_send"
    /\ UNCHANGED << session, chanBuf, nextConn, call, ret >>
    /\ TermFrame

\* self.shell_channel.send(full_command + '\n') returns
TermSend ==
    /\ pc = "send"
    /\ pc' = "recv"
    /\ UNCHANGED << session, chanBuf, nextConn, call, ret >>
    /\ TermFrame

\* send raises: the except Exception branch returns ERROR
TermSendRaises ==
    /\ pc = "send"
    /\ TermReturned("error", FALSE)
    /\ UNCHANGED << session, chanBuf, nextConn, call >>
    /\ TermFrame

\* time.time() advances, towards end_time and towards the end of the
\* probe's window
TimePasses ==
    /\ \/ /\ pc \in {"drain", "send", "recv"}
          /\ BeforeDeadline(call)
          /\ call' = [call EXCEPT !.elapsed = @ + 1]
       \/ /\ pc = "probe_wait"
          /\ InProbeWindow(call)
          /\ call' = [call EXCEPT !.probeElapsed = @ + 1]
    /\ UNCHANGED << session, chanBuf, nextConn, pc, ret >>
    /\ TermFrame

\* one recv of the receive loop brings the next part of the framed output
RecvProgress ==
    /\ pc = "recv"
    /\ BeforeDeadline(call)
    /\ \E d \in { [call.dec EXCEPT !.started = TRUE],
                  [call.dec EXCEPT !.ended = TRUE] }
                \cup { [call.dec EXCEPT !.exit_code = code] : code \in Codes } :
          /\ d # call.dec
          /\ call' = [call EXCEPT !.dec = d]
          /\ pc' = IF LoopDone(d) THEN "classify" ELSE "recv"
    /\ UNCHANGED << session, chanBuf, nextConn, ret >>
    /\ TermFrame

\* recv raises paramiko's SSHException: break
TermRecvSSHException ==
    /\ pc = "recv"
    /\ BeforeDeadline(call)
    /\ pc' = "classify"
    /\ UNCHANGED << session, chanBuf, nextConn, call, ret >>
    /\ TermFrame

\* while time.time() < end_time is false
TermDeadlineExit ==
    /\ pc = "recv"
    /\ ~BeforeDeadline(call)
    /\ pc' = "classify"
    /\ UNCHANGED << session, chanBuf, nextConn, call, ret >>
    /\ TermFrame

\* the status is decided; TIMEOUT calls try_session_recovery()
TermClassify ==
    /\ pc = "classify"
    /\ IF Status(call) = "timeout"
       THEN /\ call' = [call EXCEPT !.round = IF session_recovery THEN 1 ELSE 0]
            /\ pc' = IF session_recovery THEN "interrupt" ELSE "reconnect"
            /\ UNCHANGED ret
       ELSE /\ TermReturned(Status(call), FALSE)
            /\ UNCHANGED call
    /\ UNCHANGED << session, chanBuf, nextConn >>
    /\ TermFrame

\* send_interrupt_signals(), which may end the command that was writing
TermInterrupt ==
    /\ pc = "interrupt"
    /\ \E flood \in {call.flood, FALSE} : call' = [call EXCEPT !.flood = flood]
    /\ pc' = "rdrain"
    /\ UNCHANGED << session, chanBuf, nextConn, ret >>
    /\ TermFrame

\* test_session_responsiveness() sends its echo
TermProbeSend ==
    /\ pc = "probe_send"
    /\ call' = [call EXCEPT !.probeElapsed = 0]
    /\ pc' = "probe_wait"
    /\ UNCHANGED << session, chanBuf, nextConn, ret >>
    /\ TermFrame

\* the probe's marker is received: the call returns RECOVERED
TermProbeAnswer ==
    /\ pc = "probe_wait"
    /\ InProbeWindow(call)
    /\ TermReturned("recovered", TRUE)
    /\ UNCHANGED << session, chanBuf, nextConn, call >>
    /\ TermFrame

\* the probe's window is over: the next round, or the forced reconnect
TermProbeTimeout ==
    /\ pc = "probe_wait"
    /\ ~InProbeWindow(call)
    /\ IF call.round < RecoveryRounds
       THEN /\ call' = [call EXCEPT !.round = @ + 1]
            /\ pc' = "interrupt"
       ELSE /\ pc' = "reconnect"
            /\ UNCHANGED call
    /\ UNCHANGED << session, chanBuf, nextConn, ret >>
    /\ TermFrame

\* force_reconnect(), then the call returns TIMEOUT
TermReconnect ==
    /\ pc = "reconnect"
    /\ nextConn' = nextConn + 1
    /\ \E o1 \in DisconnectOutcomes(shell_channel, ssh_client, is_connected) :
          \E o \in { ConnectOk(nextConn + 1) }
                   \cup { MarkDisconnected(o2) :
                            o2 \in ConnectFailOutcomes(o1.ch, o1.conn, nextConn + 1) } :
             /\ shell_channel' = o.ch
             /\ ssh_client' = o.cl
             /\ is_connected' = o.conn
             /\ chanBuf' = IF o.ch = shell_channel THEN chanBuf ELSE 0
    /\ TermReturned("timeout", FALSE)
    /\ UNCHANGED call
    /\ TermFrame

\* the steps the program takes by itself
TermStep ==
    \/ TermNotConnected
    \/ TermBegin
    \/ DrainRead
    \/ DrainEnd
    \/ TermSend
    \/ TermDeadlineExit
    \/ TermClassify
    \/ TermInterrupt
    \/ TermProbeSend
    \/ TermProbeTimeout
    \/ TermReconnect

TermNext ==
    \/ TermStep
    \/ TimePasses
    \/ TermSendRaises
    \/ RecvProgress
    \/ TermRecvSSHException
    \/ TermProbeAnswer

\* The thread keeps running and the clock keeps going.
TermSpec ==
    /\ TermInit
    /\ [][TermNext]_vars
    /\ WF_vars(TermStep)
    /\ WF_vars(TimePasses)

\* C31: every execute_command call terminates, whatever the transport does,
\* a transport that always has more data for the drain included.
C31_Terminates == <>(pc = "returned")

\* The call is still inside the drain before its send when its deadline has
\* passed, and the channel still has data.
C31_Witness ==
    /\ pc = "drain" /\ call.flood /\ ~BeforeDeadline(call)

\* A call on a transport that stops writing terminates.
C31_QuietTerminates == (~call.flood) ~> (pc = "returned")

\* ===================================================================
\* test_session_responsiveness() over the characters of the stream: probes
\* one after the other on one channel, pending being the text the shell has
\* still to deliver (what an earlier probe left unread included), each
\* recv(1024) returning any non-empty prefix of it.
\* ===================================================================
MaxProbes == 2

\* test_marker = f"RECOVERY_TEST_{test_id}" of the k-th probe: uuid4 gives
\* each probe an id of its own
test_marker(k) == << "R" >> \o DigitText(k)

\* what the shell writes for echo '<test_marker>'
TestEcho(k) == test_marker(k) \o NL

NoProbe ==
    [k |-> 0, collected_output |-> <<>>, responds |-> FALSE, probeElapsed |-> 0]

NoProbeResult == [k |-> 0, responsive |-> FALSE, received |-> <<>>]

ProbeInit ==
    /\ is_connected = TRUE
    /\ shell_channel = 1
    /\ ssh_client = 1
    /\ nextConn = 1
    /\ session_recovery = TRUE
    /\ lockOwner = 0
    /\ pending \in { <<>>, << "a", "\n" >> }
    /\ chanBuf = <<>>
    /\ nextMarker = 0
    /\ pc = "idle"
    /\ call = NoProbe
    /\ ret = NoProbeResult

ProbeFrame ==
    UNCHANGED << session, session_recovery, lockOwner, chanBuf, nextConn >>

\* the probe returns
TestReturned(k, responsive, received) ==
    /\ ret' = [k |-> k, responsive |-> responsive, received |-> received]
    /\ pc' = "idle"

\* self.shell_channel.send(test_command + '\n'); start_time = time.time().
\* A responsive shell will write the echo, a stuck one nothing.
TestSend ==
    /\ pc = "idle"
    /\ nextMarker < MaxProbes
    /\ nextMarker' = nextMarker + 1
    /\ \E responds \in BOOLEAN :
          /\ pending' = pending \o (IF responds THEN TestEcho(nextMarker + 1) ELSE <<>>)
          /\ call' = [k |-> nextMarker + 1, collected_output |-> <<>>,
                      responds |-> responds, probeElapsed |-> 0]
    /\ pc' = "probe_wait"
    /\ ret' = NoProbeResult
    /\ ProbeFrame

\* send raises: the outer except returns False
TestSendRaises ==
    /\ pc = "idle"
    /\ nextMarker < MaxProbes
    /\ nextMarker' = nextMarker + 1
    /\ call' = [k |-> nextMarker + 1, collected_output |-> <<>>,
                responds |-> FALSE, probeElapsed |-> 0]
    /\ TestReturned(nextMarker + 1, FALSE, <<>>)
    /\ UNCHANGED pending
    /\ ProbeFrame

\* if test_marker in output
MarkerInOutput(k, output) == InText(test_marker(k), output)

\* data = self.shell_channel.recv(1024) returns a non-empty prefix of the
\* stream; it is added to collected_output and searched for the marker
TestRecv ==
    /\ pc = "probe_wait"
    /\ InProbeWindow(call)
    /\ \E n \in 1..Len(pending) :
          LET output == SubSeq(pending, 1, n)
          IN /\ pending' = SubSeq(pending, n + 1, Len(pending))
             /\ call' = [call EXCEPT !.collected_output = @ \o output]
             /\ IF MarkerInOutput(call.k, output)
                THEN TestReturned(call.k, TRUE, call.collected_output \o output)
                ELSE UNCHANGED << pc, ret >>
    /\ UNCHANGED nextMarker
    /\ ProbeFrame

\* time.sleep(0.1), or a recv that waits and finds nothing
TestTick ==
    /\ pc = "probe_wait"
    /\ InProbeWindow(call)
    /\ call' = [call EXCEPT !.probeElapsed = @ + 1]
    /\ UNCHANGED << pending, nextMarker, pc, ret >>
    /\ ProbeFrame

\* while time.time() - start_time < 3 is false: return False
TestFails ==
    /\ pc = "probe_wait"
    /\ ~InProbeWindow(call)
    /\ TestReturned(call.k, FALSE, call.collected_output)
    /\ UNCHANGED << call, pending, nextMarker >>
    /\ ProbeFrame

ProbeNext ==
    \/ TestSend
    \/ TestSendRaises
    \/ TestRecv
    \/ TestTick
    \/ TestFails

ProbeSpec == ProbeInit /\ [][ProbeNext]_vars

\* a probe returned in the step just taken
ProbeReturns == ret.k # 0

\* C32: a probe reports the shell responsive if and only if its own marker
\* is in the bytes it received within its window, however the bytes were
\* split into reads; what earlier probes left on the channel does not make
\* it succeed.
C32_ProbeMarker ==
    ProbeReturns
        => (ret.responsive <=> InText(test_marker(ret.k), ret.received))

\* The second probe succeeds after it read what the first one left.
C32_Witness ==
    /\ ProbeReturns /\ ret.k = 2 /\ ret.responsive
    /\ InText(test_marker(1), ret.received)

\* ===================================================================
\* Recovery called directly (the ssh_recover_session tool) by one thread
\* while another thread calls execute_command on the same session.
\* pc.exec is where the executing thread (lock owner 1) is, pc.rec where the
\* recovering thread (lock owner 2) is; chanBuf is the channel object (its
\* active flag); call has the recovering thread's locals and history.
\* ===================================================================
ExecThread == 1
RecThread == 2

\* interrupt_signals of send_interrupt_signals(): '\x03', '\x1b', '\n',
\* '\x03\n', 'q\n'
interrupt_signals_EscFirst == << "ESC", "Ctrl-C", "newline", "Ctrl-C newline", "q newline" >>

interrupt_signals == << "Ctrl-C", "ESC", "newline", "Ctrl-C newline", "q newline" >>

OpenChannel == [active |-> TRUE]

\* if self.shell_channel and self.shell_channel.active
ChannelUsable == shell_channel # 0 /\ chanBuf.active

\* round: the recovery round; usable: what the interrupt step found at its
\* test; sent: the signals the step has sent; raised: a send of the step
\* raised; touched (history): the thread sent to, read from, closed or
\* replaced the channel while the other thread was inside its marker window.
NoRecovery ==
    [round |-> 0, usable |-> FALSE, sent |-> <<>>, raised |-> FALSE,
     touched |-> FALSE]

RecoverInit ==
    /\ \E connected \in BOOLEAN :
          /\ is_connected = connected
          /\ shell_channel = (IF connected THEN 1 ELSE 0)
          /\ ssh_client = (IF connected THEN 1 ELSE 0)
          /\ nextConn = (IF connected THEN 1 ELSE 0)
    /\ session_recovery \in BOOLEAN
    /\ lockOwner = 0
    /\ pending = <<>>
    /\ chanBuf = OpenChannel
    /\ nextMarker = 0
    /\ pc = [exec |-> "idle", rec |-> "idle"]
    /\ call = NoRecovery
    /\ ret = [recovered |-> "none"]

RecoverFrame == UNCHANGED << session_recovery, pending, nextMarker >>

InWindow == pc.exec = "window"

\* the recovering thread uses the channel
Touch(c) == [c EXCEPT !.touched = @ \/ (InWindow /\ shell_channel # 0)]

\* execute_command of the other thread: the lock is taken, the session is
\* connected, the command is sent
WindowOpens ==
    /\ pc.exec = "idle"
    /\ lockOwner = 0
    /\ ~NotConnected
    /\ lockOwner' = ExecThread
    /\ pc' = [pc EXCEPT !.exec = "window"]
    /\ UNCHANGED << session, chanBuf, nextConn, call, ret >>
    /\ RecoverFrame

\* execute_command returns SUCCESS, ERROR or RECOVERED
WindowCloses ==
    /\ pc.exec = "window"
    /\ lockOwner' = 0
    /\ pc' = [pc EXCEPT !.exec = "idle"]
    /\ UNCHANGED << session, chanBuf, nextConn, call, ret >>
    /\ RecoverFrame

\* execute_command returns TIMEOUT after its forced reconnect
WindowTimesOut ==
    /\ pc.exec = "window"
    /\ nextConn < MaxConn
    /\ nextConn' = nextConn + 1
    /\ \E o1 \in DisconnectOutcomes(shell_channel, ssh_client, is_connected) :
          \E o \in { ConnectOk(nextConn + 1) }
                   \cup { MarkDisconnected(o2) :
                            o2 \in ConnectFailOutcomes(o1.ch, o1.conn, nextConn + 1) } :
             /\ shell_channel' = o.ch
             /\ ssh_client' = o.cl
             /\ is_connected' = o.conn
             /\ chanBuf' = IF o.ch = shell_channel THEN chanBuf ELSE OpenChannel
    /\ lockOwner' = 0
    /\ pc' = [pc EXCEPT !.exec = "idle"]
    /\ UNCHANGED << call, ret >>
    /\ RecoverFrame

\* the remote end closes the channel
ChannelDies ==
    /\ shell_channel # 0
    /\ chanBuf.active
    /\ chanBuf' = [chanBuf EXCEPT !.active = FALSE]
    /\ UNCHANGED << session, lockOwner, nextConn, pc, call, ret >>
    /\ RecoverFrame

\* try_session_recovery(): if not self.session_recovery: return False
RecoverStart ==
    /\ pc.rec = "idle"
    /\ call' = [NoRecovery EXCEPT !.round = IF session_recovery THEN 1 ELSE 0]
    /\ pc' = [pc EXCEPT !.rec = IF session_recovery THEN "interrupt" ELSE "disconnect"]
    /\ ret' = [recovered |-> "none"]
    /\ UNCHANGED << session, lockOwner, chanBuf, nextConn >>
    /\ RecoverFrame

\* send_interrupt_signals(): the test of the channel
InterruptBegin ==
    /\ pc.rec = "interrupt"
    /\ call' = [call EXCEPT !.usable = ChannelUsable, !.sent = <<>>,
                            !.raised = FALSE]
    /\ pc' = [pc EXCEPT !.rec = IF ChannelUsable THEN "signal" ELSE "rdrain"]
    /\ UNCHANGED << session, lockOwner, chanBuf, nextConn, ret >>
    /\ RecoverFrame

\* self.shell_channel.send(signal); time.sleep(0.3)
SendSignal ==
    /\ pc.rec = "signal"
    /\ shell_channel # 0
    /\ chanBuf.active
    /\ LET sent == Append(call.sent, interrupt_signals[Len(call.sent) + 1])
       IN /\ call' = [Touch(call) EXCEPT !.sent = sent]
          /\ pc' = [pc EXCEPT !.rec =
                      IF Len(sent) = Len(interrupt_signals) THEN "rdrain" ELSE "signal"]
    /\ UNCHANGED << session, lockOwner, chanBuf, nextConn, ret >>
    /\ RecoverFrame

\* a send raises (the channel was closed or replaced by None, or the send
\* timed out): the except of send_interrupt_signals logs it
SendSignalRaises ==
    /\ pc.rec = "signal"
    /\ call' = [call EXCEPT !.raised = TRUE]
    /\ pc' = [pc EXCEPT !.rec = "rdrain"]
    /\ UNCHANGED << session, lockOwner, chanBuf, nextConn, ret >>
    /\ RecoverFrame

\* self._drain_output() of the round: recv until nothing comes
DirectDrain ==
    /\ pc.rec = "rdrain"
    /\ call' = Touch(call)
    /\ pc' = [pc EXCEPT !.rec = "probe"]
    /\ UNCHANGED << session, lockOwner, chanBuf, nextConn, ret >>
    /\ RecoverFrame

\* test_session_responsiveness(): True ends the recovery, False goes to the
\* next round or, after the third, to force_reconnect()
DirectProbe ==
    /\ pc.rec = "probe"
    /\ \E responsive \in { r \in BOOLEAN : r => ChannelUsable } :
          IF responsive
          THEN /\ ret' = [recovered |-> "recovered"]
               /\ pc' = [pc EXCEPT !.rec = "idle"]
               /\ call' = Touch(call)
          ELSE /\ ret' = ret
               /\ pc' = [pc EXCEPT !.rec =
                           IF call.round < RecoveryRounds THEN "interrupt"
                           ELSE "disconnect"]
               /\ call' = [Touch(call) EXCEPT
                              !.round = IF @ < RecoveryRounds THEN @ + 1 ELSE @]
    /\ UNCHANGED << session, lockOwner, chanBuf, nextConn >>
    /\ RecoverFrame

\* force_reconnect(): self.disconnect(), under the lock
DirectDisconnect ==
    /\ pc.rec = "disconnect"
    /\ lockOwner = 0
    /\ \E o \in DisconnectOutcomes(shell_channel, ssh_client, is_connected) :
          /\ shell_channel' = o.ch
          /\ ssh_client' = o.cl
          /\ is_connected' = o.conn
          /\ chanBuf' = IF o.ch = shell_channel THEN chanBuf ELSE OpenChannel
    /\ call' = Touch(call)
    /\ pc' = [pc EXCEPT !.rec = "connect"]
    /\ UNCHANGED << lockOwner, nextConn, ret >>
    /\ RecoverFrame

\* force_reconnect(): time.sleep(2); return self.connect(), under the lock
DirectConnect ==
    /\ pc.rec = "connect"
    /\ lockOwner = 0
    /\ nextConn < MaxConn
    /\ nextConn' = nextConn + 1
    /\ \E o \in { ConnectOk(nextConn + 1) }
                \cup ConnectFailOutcomes(shell_channel, is_connected, nextConn + 1) :
          /\ shell_channel' = o.ch
          /\ ssh_client' = o.cl
          /\ is_connected' = o.conn
          /\ chanBuf' = IF o.ch = shell_channel THEN chanBuf ELSE OpenChannel
          /\ ret' = [recovered |-> IF o = ConnectOk(nextConn + 1)
                                   THEN "reconnected" ELSE "disconnected"]
    /\ call' = Touch(call)
    /\ pc' = [pc EXCEPT !.rec = "idle"]
    /\ UNCHANGED lockOwner
    /\ RecoverFrame

RecoverNext ==
    \/ WindowOpens
    \/ WindowCloses
    \/ WindowTimesOut
    \/ ChannelDies
    \/ RecoverStart
    \/ InterruptBegin
    \/ SendSignal
    \/ SendSignalRaises
    \/ DirectDrain
    \/ DirectProbe
    \/ DirectDisconnect
    \/ DirectConnect

RecoverSpec == RecoverInit /\ [][RecoverNext]_vars

\* s is the start of t
IsPrefix(s, t) == Len(s) <= Len(t) /\ SubSeq(t, 1, Len(s)) = s

C36_DirectRecoveryExcluded == ~call.touched

\* The recovering thread is between two interrupt signals while the other
\* thread is inside its marker window.
C36_Witness ==
    /\ InWindow /\ pc.rec = "signal" /\ Len(call.sent) = 2

\* force_reconnect() closes and replaces the transport only under the lock.
C36_ReconnectUnderLock ==
    [][(shell_channel' # shell_channel \/ ssh_client' # ssh_client)
          => (~InWindow \/ ~InWindow')]_vars

\* ---------------------------------------------------------------------
\* Chunking, under DecodeSpec.

\* the loop's locals after the whole stream came in one chunk
OneChunk(out, code) == DecodeChunk(ShellStream(out, code), NoTextDecode)

\* the call received every character of its stream
WholeStream(r) == r.dec.received = Len(ShellStream(r.truthOut, r.truthCode))

\* C34: the result does not depend on how the stream is split into reads.
\* A call that received its whole stream before its deadline, whatever the
\* chunks, returns the status, exit_code and stdout lines of the call that
\* received it in one chunk (for a command that prints no EXIT_CODE: line:
\* decoding reaches DONE, SUCCESS, the command's exit code and lines).
C34_ChunkingIndependent ==
    (DecodeReturns /\ ret.sent /\ WholeStream(ret) /\ ret.exitedBy # "exception"
       /\ ~PrintsExitCodeLine(ret.truthOut))
        => LET one == OneChunk(ret.truthOut, ret.truthCode)
           IN /\ ret.exitedBy = "done"
              /\ ret.exit_code = one.exit_code
              /\ ret.stdout = one.stdout
              /\ BeforeDeadline(ret) => ret.status = "success"

\* A call received its whole stream in three or more chunks, one of them
\* ending inside a line, and reached DONE.
C34_Witness ==
    /\ DecodeReturns /\ WholeStream(ret) /\ ret.exitedBy = "done"
    /\ ret.got >= 3 /\ ret.dec.split /\ ret.stdout # <<>>

\* ---------------------------------------------------------------------
\* The sudo password and the result, under SudoSpec.

\* C35: the fields command, original_command and stderr of a CommandResult
\* are the same for two calls that differ only in the value of the sudo
\* password, and the password is in none of them.
C35_PasswordNotInResult ==
    pc = "returned"
        => /\ ret.result.command = ret.twin.command
           /\ ret.result.original_command = ret.twin.original_command
           /\ ret.result.stderr = ret.twin.stderr
           /\ \A pw \in { ret.sudo_password, call.o.sudo_password } :
                 Truthy(pw)
                    => /\ ~InText(pw, ret.result.command)
                       /\ ret.result.original_command # NoText
                             => ~InText(pw, ret.result.original_command)

\* A call whose command was rewritten with the password returned.
C35_Witness ==
    /\ pc = "returned" /\ ret.result.auto_fixed
    /\ ret.outcome = "recovered"
    /\ Truthy(ret.sudo_password) /\ InText(EchoPipe(ret.sudo_password), ret.sent)

\* ===================================================================
\* execute_commands called by several threads on one connected session.
\* call[t] is the list of thread t (its length n, stop_on_error) and how
\* many of its commands were executed; chanBuf is the sequence of the
\* commands sent to the session, each as << thread, index in its list >>.
\* ===================================================================
SeqInit ==
    /\ is_connected = TRUE
    /\ shell_channel = 1
    /\ ssh_client = 1
    /\ nextConn = 1
    /\ session_recovery = TRUE
    /\ lockOwner = 0
    /\ pending = <<>>
    /\ chanBuf = <<>>
    /\ nextMarker = 0
    /\ pc = [t \in Threads |-> "loop"]
    /\ call \in [Threads -> [n : 1..MaxBatch, done : {0}, stop_on_error : BOOLEAN]]
    /\ ret = <<>>

SeqFrame == UNCHANGED << session, session_recovery, pending, nextMarker, nextConn, ret >>

\* for command in commands: execute_command(command) takes the lock and
\* sends the command
SeqExecute(t) ==
    /\ pc[t] = "loop"
    /\ LockFree(t)
    /\ lockOwner' = t
    /\ chanBuf' = Append(chanBuf, << t, call[t].done + 1 >>)
    /\ pc' = [pc EXCEPT ![t] = "window"]
    /\ UNCHANGED call
    /\ SeqFrame

\* execute_command returns its result and releases the lock; the loop
\* goes on to the next command, breaks, or is over
SeqResult(t) ==
    /\ pc[t] = "window"
    /\ lockOwner' = 0
    /\ \E status \in CommandStatuses :
          pc' = [pc EXCEPT ![t] =
                   IF StopsAfter(call[t].stop_on_error, status)
                      \/ call[t].done + 1 = call[t].n
                   THEN "returned" ELSE "loop"]
    /\ call' = [call EXCEPT ![t].done = @ + 1]
    /\ UNCHANGED chanBuf
    /\ SeqFrame

SeqNext == \E t \in Threads : SeqExecute(t) \/ SeqResult(t)

SeqSpec == SeqInit /\ [][SeqNext]_vars

\* C37: an execute_commands call is atomic: between two commands of one
\* call's sequence no command of another call is executed on the session.
C37_SequenceAtomic ==
    \A i, j, k \in 1..Len(chanBuf) :
        (i < j /\ j < k /\ chanBuf[i][1] = chanBuf[k][1])
            => chanBuf[j][1] = chanBuf[i][1]

\* A thread is between two commands of its sequence, holding no lock,
\* while another thread's command runs.
C37_Witness ==
    \E t, u \in Threads :
        /\ t # u /\ pc[t] = "loop" /\ call[t].done >= 1
        /\ pc[u] = "window" /\ lockOwner = u

\* ---------------------------------------------------------------------
\* The session fields and execute_command, under Spec.

\* C38: a call that returns SUCCESS, ERROR or RECOVERED leaves is_connected,
\* the channel and the client as they were when it took the session; a call
\* after which they differ returns TIMEOUT, after its deadline passed, its
\* recovery failed and force_reconnect() was called.
C38_SessionFrame ==
    Returns
        => /\ ret.sessAtEnd = session
           /\ ret.status \in {"success", "error", "recovered"}
                 => session = ret.sessAtStart
           /\ session # ret.sessAtStart
                 => /\ ret.status = "timeout"
                    /\ ~BeforeDeadline(ret)
                    /\ ret.recovery /\ ret.reconnect # "none"

\* A call returned RECOVERED after a later round of its recovery, on the
\* session it started with, and another one returned TIMEOUT on a new one.
C38_Witness ==
    /\ Returns /\ ret.status = "recovered" /\ ret.round >= 2
    /\ ConnectedAt(ret.sessAtStart) /\ session = ret.sessAtStart
    /\ nextConn >= 2
\* ------------------------------------------- the fixer and its own output
AnalysedAgain == pc = "analysed again"

\* C39: fixed_command differs from the command given if and only if
\* fixes_applied is not empty; with auto-fix off, or when no heredoc is
\* detected, fixed_command is the command given and fixes_applied is empty.
C39_FixedIffFixes ==
    Analysed
        => /\ ret.fixed_command # call.command <=> ret.fixes_applied # <<>>
           /\ (~ret.auto_fix_enabled \/ ~ret.is_heredoc)
                 => /\ ret.fixed_command = call.command
                    /\ ret.fixes_applied = <<>>

\* Both fixes applied to one command, and a command without a heredoc that
\* came back as it was.
C39_Witness ==
    /\ Analysed /\ ret.auto_fix_enabled
    /\ \/ /\ ret.is_heredoc /\ Len(ret.fixes_applied) = 2
          /\ ret.fixed_command # call.command
       \/ /\ ~ret.is_heredoc /\ call.h.indent # <<>> /\ ~call.h.newline
          /\ ret.fixed_command = call.command

\* C40: with auto-fix on, the fixer applied to its own fixed_command returns
\* that command unchanged and applies no fix.
C40_FixerIdempotent ==
    (AnalysedAgain /\ ret.first.auto_fix_enabled)
        => /\ ret.again.fixed_command = ret.first.fixed_command
           /\ ret.again.fixes_applied = <<>>

\* One indented terminator and no newline: repaired in the first pass,
\* nothing left for the second.
C40_Witness ==
    /\ AnalysedAgain /\ ret.first.auto_fix_enabled
    /\ PlainBody(call.h) /\ call.h.indent # <<>> /\ ~call.h.newline
    /\ Len(ret.first.fixes_applied) = 2
    /\ ret.again.fixed_command = ret.first.fixed_command
    /\ ret.again.fixes_applied = <<>>

====
